---------------------------- MODULE Spec2Model ----------------------------
(* Verification model of the accelerate-general bindings.                  *)
(*                                                                         *)
(* Every function of the crate is an `extern "C"` declaration: a call is   *)
(* forwarded, argument for argument, to the CBLAS routine its link_name    *)
(* names.  A binding is therefore modelled by its signature (which buffers *)
(* are `*const`, which are `*mut`, what is returned) and by the operation  *)
(* its doc comment and link_name state, carried out over strided memory.   *)
(* Scalars are exact: a number is a pair (re, im) of integers, a real one  *)
(* has im = 0.  Rounding is not modelled.                                  *)
EXTENDS Integers, Sequences, FiniteSets

VARIABLES
    pc,     \* "ready": buffers prepared by the caller; "done": the call returned
    view,   \* extents, strides, leading dimensions and enumerations of the call
    call,   \* the binding called and its scalar arguments
    X, Y,   \* vector buffers (caller-owned memory, offset o is element o+1)
    A, B, C,\* matrix buffers
    pre,    \* the buffers as they were when the call was made
    ret,    \* what the binding returned
    out     \* the scalar written through an out-pointer (dotc, dotu)

vars == <<pc, view, call, X, Y, A, B, C, pre, ret, out>>

-----------------------------------------------------------------------------
(* Bounds of the model *)

MaxN == 2
MaxVal == 1
MaxDim == 2

Vals == (0 - 1)..MaxVal

-----------------------------------------------------------------------------
(* constants.rs: the enumerations, with their #[repr(i32)] values *)

RowMajor == 101
ColMajor == 102
NoTrans == 111
Trans == 112
ConjTrans == 113
AtlasConj == 114
Upper == 121
Lower == 122
NonUnit == 131
Unit == 132
Left == 141
Right == 142

CblasOrder == {RowMajor, ColMajor}
CblasTranspose == {NoTrans, Trans, ConjTrans, AtlasConj}
CblasUpLow == {Upper, Lower}
CblasDiag == {NonUnit, Unit}
CblasSide == {Left, Right}

-----------------------------------------------------------------------------
(* Element algebra: c_float / c_double and num_complex::Complex *)

Cx(r, i) == [re |-> r, im |-> i]
R(r) == Cx(r, 0)
CAdd(a, b) == Cx(a.re + b.re, a.im + b.im)
CMul(a, b) == Cx(a.re * b.re - a.im * b.im, a.re * b.im + a.im * b.re)
Conj(a) == Cx(a.re, 0 - a.im)
IsReal(a) == a.im = 0
Abs(v) == IF v < 0 THEN 0 - v ELSE v

\* The magnitude the i?amax routines compare: |x| for a real element,
\* |re| + |im| for a complex one.
Mag(a) == Abs(a.re) + Abs(a.im)

\* A slot of a buffer that belongs to no logical element of the view laid
\* over it: memory the caller owns but the call has no business with.
Pad == Cx(0 - 9, 0 - 9)

-----------------------------------------------------------------------------
(* Raw-pointer memory: a buffer is a sequence, `p.add(o)` is slot o + 1 *)

Rd(buf, o) == buf[o + 1]
Wr(buf, o, v) == [buf EXCEPT ![o + 1] = v]

\* Logical element i (0-based) of a vector with increment inc.
VOff(i, inc) == i * inc

\* The smallest buffer holding a view of n elements with increment inc, and
\* one more slot after it.
BufLen(n, inc) == n * inc + 1

\* The caller's buffer for the logical vector xs (a sequence of length n).
Layout(xs, n, inc) ==
    [o \in 1..BufLen(n, inc) |->
        IF inc = 0
        THEN IF n >= 1 THEN xs[1] ELSE Pad
        ELSE IF (o - 1) % inc = 0 /\ (o - 1) \div inc < n
             THEN xs[((o - 1) \div inc) + 1]
             ELSE Pad]

\* The logical vector a view of n elements reads out of a buffer.
Logical(buf, n, inc) == [i \in 1..n |-> Rd(buf, VOff(i - 1, inc))]

\* What a routine of the vendor library may leave behind: the documented
\* result when the arguments meet the documented requirements; otherwise the
\* source does not say, and the routine may either carry out the same loop
\* or return without touching anything.
VendorOutcomes(valid, result, untouched) ==
    IF valid THEN {result} ELSE {result, untouched}

NoCall == [op |-> "none"]
UnitRet == [kind |-> "unit"]
Value(v) == [kind |-> "value", val |-> v]
Err(e) == [kind |-> "error", err |-> e]
NoBuf == <<>>
NoOut == [kind |-> "unset"]

-----------------------------------------------------------------------------
(* Level 1 routines, as the loops the doc comments describe *)

\* cblas_saxpy / cblas_daxpy / cblas_caxpy: y = alpha * x + y.
RECURSIVE axpy(_, _, _, _, _, _, _)
axpy(i, n, alpha, x, inc_x, y, inc_y) ==
    IF i >= n THEN y
    ELSE axpy(i + 1, n, alpha, x, inc_x,
              Wr(y, VOff(i, inc_y),
                 CAdd(CMul(alpha, Rd(x, VOff(i, inc_x))), Rd(y, VOff(i, inc_y)))),
              inc_y)

\* catlas_saxpby / catlas_daxpby / catlas_caxpby / catlas_zaxpby:
\* y = alpha * x + beta * y.
RECURSIVE axpby(_, _, _, _, _, _, _, _)
axpby(i, n, alpha, x, inc_x, beta, y, inc_y) ==
    IF i >= n THEN y
    ELSE axpby(i + 1, n, alpha, x, inc_x, beta,
               Wr(y, VOff(i, inc_y),
                  CAdd(CMul(alpha, Rd(x, VOff(i, inc_x))),
                       CMul(beta, Rd(y, VOff(i, inc_y))))),
               inc_y)

\* cblas_sdot / cblas_ddot / cblas_cdotu_sub: the sum of x_i * y_i, taken
\* from index 0 upwards into the accumulator acc.
RECURSIVE dotu(_, _, _, _, _, _, _)
dotu(i, n, acc, x, inc_x, y, inc_y) ==
    IF i >= n THEN acc
    ELSE dotu(i + 1, n,
              CAdd(acc, CMul(Rd(x, VOff(i, inc_x)), Rd(y, VOff(i, inc_y)))),
              x, inc_x, y, inc_y)

\* cblas_cdotc_sub: the sum of conj(x_i) * y_i.
RECURSIVE dotc(_, _, _, _, _, _, _)
dotc(i, n, acc, x, inc_x, y, inc_y) ==
    IF i >= n THEN acc
    ELSE dotc(i + 1, n,
              CAdd(acc, CMul(Conj(Rd(x, VOff(i, inc_x))), Rd(y, VOff(i, inc_y)))),
              x, inc_x, y, inc_y)

\* cblas_sscal / cblas_cscal: x = alpha * x.
RECURSIVE scal(_, _, _, _, _)
scal(i, n, alpha, x, inc_x) ==
    IF i >= n THEN x
    ELSE scal(i + 1, n, alpha,
              Wr(x, VOff(i, inc_x), CMul(alpha, Rd(x, VOff(i, inc_x)))), inc_x)

\* cblas_scopy / cblas_dcopy / cblas_ccopy: y = x.
RECURSIVE copy_loop(_, _, _, _, _, _)
copy_loop(i, n, x, inc_x, y, inc_y) ==
    IF i >= n THEN y
    ELSE copy_loop(i + 1, n, x, inc_x,
                   Wr(y, VOff(i, inc_y), Rd(x, VOff(i, inc_x))), inc_y)

\* cblas_sswap / cblas_cswap: x and y exchange their elements; the result
\* is the pair of buffers.
RECURSIVE swap_loop(_, _, _, _, _, _)
swap_loop(i, n, x, inc_x, y, inc_y) ==
    IF i >= n THEN <<x, y>>
    ELSE swap_loop(i + 1, n,
                   Wr(x, VOff(i, inc_x), Rd(y, VOff(i, inc_y))), inc_x,
                   Wr(y, VOff(i, inc_y), Rd(x, VOff(i, inc_x))), inc_y)

\* cblas_isamax / cblas_icamax: the index, counted from 0, of the first
\* element of largest magnitude; best is the index found so far.
RECURSIVE iamax(_, _, _, _, _)
iamax(i, n, best, x, inc_x) ==
    IF i >= n THEN best
    ELSE iamax(i + 1, n,
               IF Mag(Rd(x, VOff(i, inc_x))) > Mag(Rd(x, VOff(best, inc_x)))
               THEN i ELSE best,
               x, inc_x)

-----------------------------------------------------------------------------
(* The bindings of vector_f32.rs, vector_f64.rs, vector_c32.rs, vector_c64.rs: *)
(* what each leaves in its output for the arguments it is given               *)

\* scale_plus as it would be if the old y were dropped from the sum.
scale_plus_overwrites(n, alpha, x, inc_x, y, inc_y) ==
    axpby(0, n, alpha, x, inc_x, R(0), y, inc_y)

\* vector_f32.rs scale_plus -> cblas_saxpy
scale_plus(n, alpha, x, inc_x, y, inc_y) == axpy(0, n, alpha, x, inc_x, y, inc_y)

\* vector_c32.rs scaled_plus -> cblas_caxpy
scaled_plus(n, alpha, x, inc_x, y, inc_y) == axpy(0, n, alpha, x, inc_x, y, inc_y)

\* vector_f64.rs lin_comb -> cblas_daxpy: the signature has no beta
lin_comb(n, alpha, x, inc_x, y, inc_y) == axpy(0, n, alpha, x, inc_x, y, inc_y)

\* vector_f32.rs lin_comb_catlas -> catlas_saxpby
\* (vector_f64.rs and vector_c64.rs declare the same under the same name)
lin_comb_catlas(n, alpha, x, inc_x, beta, y, inc_y) ==
    axpby(0, n, alpha, x, inc_x, beta, y, inc_y)

\* vector_c32.rs lin_comb_c32_catlas -> catlas_caxpby
lin_comb_c32_catlas(n, alpha, x, inc_x, beta, y, inc_y) ==
    axpby(0, n, alpha, x, inc_x, beta, y, inc_y)

\* vector_f32.rs dot -> cblas_sdot
dot(n, x, inc_x, y, inc_y) == dotu(0, n, R(0), x, inc_x, y, inc_y)

\* dot_plus as it would be if the bias went into every term of the sum.
dot_plus_bias_per_term(n, sb, x, inc_x, y, inc_y) ==
    CAdd(CMul(R(n), sb), dotu(0, n, R(0), x, inc_x, y, inc_y))

\* vector_f32.rs dot_plus -> cblas_sdsdot: sb added to the dot product
dot_plus(n, sb, x, inc_x, y, inc_y) == CAdd(sb, dotu(0, n, R(0), x, inc_x, y, inc_y))

\* vector_c32.rs dot_conj_plus -> cblas_cdotc_sub: the value stored in *dotc
dot_conj_plus(n, x, inc_x, y, inc_y) == dotc(0, n, R(0), x, inc_x, y, inc_y)

\* vector_c32.rs dot_unconj_plus -> cblas_cdotu_sub: the value stored in *dotu
dot_unconj_plus(n, x, inc_x, y, inc_y) == dotu(0, n, R(0), x, inc_x, y, inc_y)

\* scale as it would be if alpha were added to each element.
scale_adds(n, alpha, x, inc_x) ==
    [o \in DOMAIN x |->
        IF inc_x > 0 /\ (o - 1) % inc_x = 0 /\ (o - 1) \div inc_x < n
        THEN CAdd(alpha, x[o]) ELSE x[o]]

\* vector_f32.rs scale -> cblas_sscal
\* scale as it would be if it went one element past the n-th.
scale_one_too_many(n, alpha, x, inc_x) == scal(0, n + 1, alpha, x, inc_x)

scale(n, alpha, x, inc_x) == scal(0, n, alpha, x, inc_x)

\* copy as it would be if x were added to what y holds.
copy_adds(n, x, inc_x, y, inc_y) == axpy(0, n, R(1), x, inc_x, y, inc_y)

\* vector_f32.rs copy -> cblas_scopy; vector_f64.rs copy -> cblas_dcopy
copy(n, x, inc_x, y, inc_y) == copy_loop(0, n, x, inc_x, y, inc_y)

\* swap as it would be if y were left as it is.
swap_keeps_y(n, x, inc_x, y, inc_y) == <<copy_loop(0, n, y, inc_y, x, inc_x), y>>

\* vector_f32.rs swap -> cblas_sswap; vector_c32.rs swap -> cblas_cswap
swap(n, x, inc_x, y, inc_y) == swap_loop(0, n, x, inc_x, y, inc_y)

\* argmax_mod as it would be if the index were counted from 1.
argmax_mod_from_one(n, x, inc_x) == iamax(1, n, 0, x, inc_x) + 1

\* vector_f32.rs argmax_mod -> cblas_isamax; vector_c32.rs argmax_mod -> cblas_icamax
argmax_mod(n, x, inc_x) == iamax(1, n, 0, x, inc_x)

\* The return of a binding that validated its strides before forwarding.
unit_return_checked(n, inc_x, inc_y) ==
    IF n >= 1 /\ (inc_x = 0 \/ inc_y = 0) THEN Err("InvalidStride") ELSE UnitRet

\* The return of a binding that compared the lengths of its operands, had
\* it been given them.
unit_return_lengths_checked(n, inc_x, inc_y) ==
    IF "len_x" \in DOMAIN view /\ view.len_x # view.len_y
    THEN Err("InvalidLength") ELSE UnitRet

\* What a binding declared without a return type hands back: `()`.  No
\* binding of the crate returns a Result or a status code.
unit_return(n, inc_x, inc_y) == UnitRet

\* cblas_sasum: the sum of the absolute values of the n elements of x.
RECURSIVE asum(_, _, _, _, _)
asum(i, n, acc, x, inc_x) ==
    IF i >= n THEN acc
    ELSE asum(i + 1, n, acc + Abs(Rd(x, VOff(i, inc_x)).re), x, inc_x)

\* vector_f32.rs norm1 -> cblas_sasum
norm1(n, x, inc_x) == R(asum(0, n, 0, x, inc_x))

-----------------------------------------------------------------------------
(* givens.rs: the modified Givens transformation *)

\* H as it would be if p[1..4] held SH row by row.
H_by_rows(p) ==
    IF p[1] = R(0 - 2) THEN <<R(1), R(0), R(0), R(1)>>
    ELSE IF p[1] = R(0 - 1) THEN <<p[2], p[3], p[4], p[5]>>
    ELSE IF p[1] = R(0) THEN <<R(1), p[3], p[4], R(1)>>
    ELSE <<p[2], R(1), R(0 - 1), p[5]>>

\* The matrix H that the 5-element vector p stands for, as
\* <<H[1,1], H[1,2], H[2,1], H[2,2]>>.  The sequence p is indexed from 1:
\* p[1] is the flag `p[0]` of the doc comment, p[2] is SH[1,1], p[3] is
\* SH[2,1], p[4] is SH[1,2] and p[5] is SH[2,2].
H(p) ==
    IF p[1] = R(0 - 2) THEN <<R(1), R(0), R(0), R(1)>>
    ELSE IF p[1] = R(0 - 1) THEN <<p[2], p[4], p[3], p[5]>>
    ELSE IF p[1] = R(0) THEN <<R(1), p[4], p[3], R(1)>>
    ELSE <<p[2], R(1), R(0 - 1), p[5]>>

\* cblas_srotm: each pair (x_i, y_i) becomes H * (x_i, y_i).
RECURSIVE rotm(_, _, _, _, _, _, _)
rotm(i, n, x, inc_x, y, inc_y, h) ==
    IF i >= n THEN <<x, y>>
    ELSE LET xi == Rd(x, VOff(i, inc_x))
             yi == Rd(y, VOff(i, inc_y))
         IN  rotm(i + 1, n,
                  Wr(x, VOff(i, inc_x), CAdd(CMul(h[1], xi), CMul(h[2], yi))), inc_x,
                  Wr(y, VOff(i, inc_y), CAdd(CMul(h[3], xi), CMul(h[4], yi))), inc_y,
                  h)

\* givens.rs givens_mod_rot_f32 -> cblas_srotm
givens_mod_rot_f32(n, x, inc_x, y, inc_y, p) == rotm(0, n, x, inc_x, y, inc_y, H(p))

-----------------------------------------------------------------------------
(* Level 1: the caller prepares two strided vectors, then calls one binding *)

Strides == {0, 1, 2}
RealScalars == {R(0 - 1), R(0), R(1), R(2)}
ComplexScalars == {R(0), R(1), Cx(0, 1), Cx(1, 0 - 1)}
RealPairs == {<<R(2), R(0)>>, <<R(1), R(1)>>, <<R(0 - 1), R(2)>>, <<R(0), R(1)>>}
ComplexPairs == {<<Cx(0, 1), R(0)>>, <<R(1), Cx(1, 0 - 1)>>, <<Cx(1, 0 - 1), Cx(0, 1)>>}

\* The vectors of the caller.  Real: x is any vector over Vals, y runs
\* upwards from y0.  Complex: the real parts of x are any vector over Vals.
RealX(a) == [i \in DOMAIN a |-> R(a[i])]
RealY(n, y0) == [i \in 1..n |-> R(y0 + i)]
ComplexX(a, b) == [i \in DOMAIN a |-> Cx(a[i], b - i + 1)]
ComplexY(n, b) == [i \in 1..n |-> Cx(b + i, i - b)]

ViewL1(dom, n, ix, iy) == [dom |-> dom, n |-> n, inc_x |-> ix, inc_y |-> iy]

StartL1(v, xs, ys) ==
    /\ pc = "ready"
    /\ view = v
    /\ call = NoCall
    /\ X = Layout(xs, v.n, v.inc_x)
    /\ Y = Layout(ys, v.n, v.inc_y)
    /\ A = NoBuf /\ B = NoBuf /\ C = NoBuf
    /\ pre = [X |-> NoBuf, Y |-> NoBuf, A |-> NoBuf, B |-> NoBuf, C |-> NoBuf]
    /\ ret = NoOut
    /\ out = NoOut

\* spec.md section 8: n = 3, x = [1,2,3], y = [4,5,6]
ScenarioX == <<R(1), R(2), R(3)>>
ScenarioY == <<R(4), R(5), R(6)>>

\* Two complex elements that the sum of absolute parts and the modulus
\* order differently: |3| + |0| < |2| + |2| and 9 > 8.
SumNotModulusX == <<Cx(3, 0), Cx(2, 2)>>

InitL1 ==
    \/ \E n \in 0..MaxN, ix \in Strides, iy \in Strides :
         \E a \in [1..n -> Vals], y0 \in Vals :
            StartL1(ViewL1("real", n, ix, iy), RealX(a), RealY(n, y0))
    \/ \E n \in 0..MaxN, ix \in Strides, iy \in Strides :
         \E a \in [1..n -> Vals], b \in Vals :
            StartL1(ViewL1("complex", n, ix, iy), ComplexX(a, b), ComplexY(n, b))
    \/ StartL1(ViewL1("real", 3, 1, 1), ScenarioX, ScenarioY)
    \/ StartL1(ViewL1("complex", 2, 1, 1), SumNotModulusX, ComplexY(2, 0))

\* The call returns: c is the call made, xx and yy the buffers it leaves,
\* r its return value and o what it stored through its out-pointer.
Return(c, xx, yy, aa, cc, r, o) ==
    /\ pc = "ready"
    /\ pc' = "done"
    /\ call' = c
    /\ pre' = [X |-> X, Y |-> Y, A |-> A, B |-> B, C |-> C]
    /\ X' = xx
    /\ Y' = yy
    /\ A' = aa
    /\ C' = cc
    /\ ret' = r
    /\ out' = o
    /\ UNCHANGED <<view, B>>

Finish(c, xx, yy, r, o) == Return(c, xx, yy, A, C, r, o)

\* The requirement the doc comments put on a vector argument: a stride that
\* steps from one element to the next.
StrideOk(inc) == inc > 0

Call_scale_plus ==
    /\ view.dom = "real"
    /\ \E alpha \in RealScalars :
        \E yy \in VendorOutcomes(StrideOk(view.inc_x) /\ StrideOk(view.inc_y),
                   scale_plus(view.n, alpha, X, view.inc_x, Y, view.inc_y), Y) :
            Finish([op |-> "scale_plus", alpha |-> alpha], X, yy,
                   unit_return(view.n, view.inc_x, view.inc_y), NoOut)

Call_scaled_plus ==
    /\ view.dom = "complex"
    /\ \E alpha \in ComplexScalars :
        \E yy \in VendorOutcomes(StrideOk(view.inc_x) /\ StrideOk(view.inc_y),
                   scaled_plus(view.n, alpha, X, view.inc_x, Y, view.inc_y), Y) :
            Finish([op |-> "scaled_plus", alpha |-> alpha], X, yy,
                   unit_return(view.n, view.inc_x, view.inc_y), NoOut)

Call_lin_comb ==
    /\ view.dom = "real"
    /\ \E alpha \in RealScalars :
        \E yy \in VendorOutcomes(StrideOk(view.inc_x) /\ StrideOk(view.inc_y),
                   lin_comb(view.n, alpha, X, view.inc_x, Y, view.inc_y), Y) :
            Finish([op |-> "lin_comb", alpha |-> alpha], X, yy,
                   unit_return(view.n, view.inc_x, view.inc_y), NoOut)

Call_lin_comb_catlas ==
    /\ view.dom = "real"
    /\ \E ab \in RealPairs :
        \E yy \in VendorOutcomes(StrideOk(view.inc_x) /\ StrideOk(view.inc_y),
                   lin_comb_catlas(view.n, ab[1], X, view.inc_x, ab[2], Y, view.inc_y), Y) :
            Finish([op |-> "lin_comb_catlas", alpha |-> ab[1], beta |-> ab[2]], X, yy,
                   unit_return(view.n, view.inc_x, view.inc_y), NoOut)

Call_lin_comb_c32_catlas ==
    /\ view.dom = "complex"
    /\ \E ab \in ComplexPairs :
        \E yy \in VendorOutcomes(StrideOk(view.inc_x) /\ StrideOk(view.inc_y),
                   lin_comb_c32_catlas(view.n, ab[1], X, view.inc_x, ab[2], Y, view.inc_y), Y) :
            Finish([op |-> "lin_comb_c32_catlas", alpha |-> ab[1], beta |-> ab[2]], X, yy,
                   unit_return(view.n, view.inc_x, view.inc_y), NoOut)

Call_dot ==
    /\ view.dom = "real"
    /\ \E r \in VendorOutcomes(StrideOk(view.inc_x) /\ StrideOk(view.inc_y),
                   Value(dot(view.n, X, view.inc_x, Y, view.inc_y)), Value(R(0))) :
            Finish([op |-> "dot"], X, Y, r, NoOut)

Call_dot_plus ==
    /\ view.dom = "real"
    /\ \E sb \in RealScalars :
        \E r \in VendorOutcomes(StrideOk(view.inc_x) /\ StrideOk(view.inc_y),
                   Value(dot_plus(view.n, sb, X, view.inc_x, Y, view.inc_y)), Value(sb)) :
            Finish([op |-> "dot_plus", sb |-> sb], X, Y, r, NoOut)

Call_dot_conj_plus ==
    /\ view.dom = "complex"
    /\ \E o \in VendorOutcomes(StrideOk(view.inc_x) /\ StrideOk(view.inc_y),
                   Value(dot_conj_plus(view.n, X, view.inc_x, Y, view.inc_y)), Value(R(0))) :
            Finish([op |-> "dot_conj_plus"], X, Y,
                   unit_return(view.n, view.inc_x, view.inc_y), o)

Call_dot_unconj_plus ==
    /\ view.dom = "complex"
    /\ \E o \in VendorOutcomes(StrideOk(view.inc_x) /\ StrideOk(view.inc_y),
                   Value(dot_unconj_plus(view.n, X, view.inc_x, Y, view.inc_y)), Value(R(0))) :
            Finish([op |-> "dot_unconj_plus"], X, Y,
                   unit_return(view.n, view.inc_x, view.inc_y), o)

Call_scale ==
    /\ view.dom = "real"
    /\ \E alpha \in RealScalars :
        \E xx \in VendorOutcomes(StrideOk(view.inc_x),
                   scale(view.n, alpha, X, view.inc_x), X) :
            Finish([op |-> "scale", alpha |-> alpha], xx, Y,
                   unit_return(view.n, view.inc_x, 1), NoOut)

Call_copy ==
    /\ view.dom = "real"
    /\ \E yy \in VendorOutcomes(StrideOk(view.inc_x) /\ StrideOk(view.inc_y),
                   copy(view.n, X, view.inc_x, Y, view.inc_y), Y) :
            Finish([op |-> "copy"], X, yy,
                   unit_return(view.n, view.inc_x, view.inc_y), NoOut)

Call_swap_f32 ==
    /\ view.dom = "real"
    /\ \E xy \in VendorOutcomes(StrideOk(view.inc_x) /\ StrideOk(view.inc_y),
                   swap(view.n, X, view.inc_x, Y, view.inc_y), <<X, Y>>) :
            Finish([op |-> "swap"], xy[1], xy[2],
                   unit_return(view.n, view.inc_x, view.inc_y), NoOut)

Call_swap_c32 ==
    /\ view.dom = "complex"
    /\ \E xy \in VendorOutcomes(StrideOk(view.inc_x) /\ StrideOk(view.inc_y),
                   swap(view.n, X, view.inc_x, Y, view.inc_y), <<X, Y>>) :
            Finish([op |-> "swap"], xy[1], xy[2],
                   unit_return(view.n, view.inc_x, view.inc_y), NoOut)

Call_argmax_mod_f32 ==
    /\ view.dom = "real"
    /\ \E r \in VendorOutcomes(StrideOk(view.inc_x),
                   Value(argmax_mod(view.n, X, view.inc_x)), Value(0)) :
            Finish([op |-> "argmax_mod"], X, Y, r, NoOut)

Call_argmax_mod_c32 ==
    /\ view.dom = "complex"
    /\ \E r \in VendorOutcomes(StrideOk(view.inc_x),
                   Value(argmax_mod(view.n, X, view.inc_x)), Value(0)) :
            Finish([op |-> "argmax_mod"], X, Y, r, NoOut)

NextL1 ==
    \/ Call_scale_plus
    \/ Call_scaled_plus
    \/ Call_lin_comb
    \/ Call_lin_comb_catlas
    \/ Call_lin_comb_c32_catlas
    \/ Call_dot
    \/ Call_dot_plus
    \/ Call_dot_conj_plus
    \/ Call_dot_unconj_plus
    \/ Call_scale
    \/ Call_copy
    \/ Call_swap_f32
    \/ Call_swap_c32
    \/ Call_argmax_mod_f32
    \/ Call_argmax_mod_c32

SpecL1 == InitL1 /\ [][NextL1]_vars

-----------------------------------------------------------------------------
(* Level 1, repeated: the caller makes the same call again on the buffers *)
(* the call before left behind                                            *)

MaxCalls == 4

\* How many times the call has been made.
CallsMade == IF "calls" \in DOMAIN call THEN call.calls ELSE 1

\* One more call: c is the binding called, xx and yy the buffers it leaves.
\* pre keeps the buffers as they were before the first call.
Again(c, xx, yy) ==
    /\ pc = "done"
    /\ call.op = c
    /\ CallsMade < MaxCalls
    /\ call' = [op |-> c, calls |-> CallsMade + 1]
    /\ X' = xx
    /\ Y' = yy
    /\ ret' = unit_return(view.n, view.inc_x, view.inc_y)
    /\ UNCHANGED <<pc, view, A, B, C, pre, out>>

Again_swap ==
    \E xy \in VendorOutcomes(StrideOk(view.inc_x) /\ StrideOk(view.inc_y),
                swap(view.n, X, view.inc_x, Y, view.inc_y), <<X, Y>>) :
        Again("swap", xy[1], xy[2])

Again_copy ==
    \E yy \in VendorOutcomes(StrideOk(view.inc_x) /\ StrideOk(view.inc_y),
                copy(view.n, X, view.inc_x, Y, view.inc_y), Y) :
        Again("copy", X, yy)

\* copy called with the same pointer and the same increment for x and y.
Call_copy_in_place ==
    /\ view.dom = "real"
    /\ \E xx \in VendorOutcomes(StrideOk(view.inc_x),
                   copy(view.n, X, view.inc_x, X, view.inc_x), X) :
            Finish([op |-> "copy_in_place"], xx, Y,
                   unit_return(view.n, view.inc_x, view.inc_x), NoOut)

NextAgain ==
    \/ Call_swap_f32
    \/ Call_swap_c32
    \/ Call_copy
    \/ Call_copy_in_place
    \/ Again_swap
    \/ Again_copy

SpecAgain == InitL1 /\ [][NextAgain]_vars

-----------------------------------------------------------------------------
(* Level 1, operands of different lengths: the caller holds len_x elements *)
(* in x and len_y in y and passes the one count n the signatures take      *)

Min(a, b) == IF a < b THEN a ELSE b

ViewLen(dom, n, lx, ly, ix, iy) ==
    [dom |-> dom, n |-> n, inc_x |-> ix, inc_y |-> iy, len_x |-> lx, len_y |-> ly]

StartLen(v, xs, ys) ==
    /\ pc = "ready"
    /\ view = v
    /\ call = NoCall
    /\ X = Layout(xs, v.len_x, v.inc_x)
    /\ Y = Layout(ys, v.len_y, v.inc_y)
    /\ A = NoBuf /\ B = NoBuf /\ C = NoBuf
    /\ pre = [X |-> NoBuf, Y |-> NoBuf, A |-> NoBuf, B |-> NoBuf, C |-> NoBuf]
    /\ ret = NoOut
    /\ out = NoOut

InitLen ==
    \E lx \in 0..MaxN, ly \in 0..MaxN, ix \in 1..2, iy \in 1..2 :
        /\ lx # ly
        /\ \E a \in [1..lx -> Vals], y0 \in Vals :
              StartLen(ViewLen("real", Min(lx, ly), lx, ly, ix, iy), RealX(a), RealY(ly, y0))

NextLen ==
    \/ Call_dot
    \/ Call_scale_plus
    \/ Call_copy
    \/ Call_swap_f32
    \/ Call_lin_comb_catlas

SpecLen == InitLen /\ [][NextLen]_vars

-----------------------------------------------------------------------------
(* Level 1 on strided views: the calls whose reach into the buffers is *)
(* looked at                                                           *)

Call_norm1 ==
    /\ view.dom = "real"
    /\ \E r \in VendorOutcomes(StrideOk(view.inc_x),
                   Value(norm1(view.n, X, view.inc_x)), Value(R(0))) :
            Finish([op |-> "norm1"], X, Y, r, NoOut)

NextReach ==
    \/ Call_norm1
    \/ Call_scale
    \/ Call_scale_plus
    \/ Call_dot

SpecReach == InitL1 /\ [][NextReach]_vars

-----------------------------------------------------------------------------
(* Modified Givens transformation: the caller prepares x, y and the *)
(* 5-element vector p, held in A                                    *)

\* The flags the doc comment lists, and one it does not.
Flags == {0 - 2, 0 - 1, 0, 1, 2}
ListedFlags == {0 - 2, 0 - 1, 0, 1}

\* Values for SH[1,1], SH[2,1], SH[1,2], SH[2,2].
Params == {<<2, 3, 5, 7>>, <<0 - 1, 0, 1, 2>>}

InitRot ==
    \E n \in 0..MaxN, ix \in 1..2, iy \in 1..2 :
       \E a \in [1..n -> Vals], y0 \in Vals, f \in Flags, sh \in Params :
          /\ pc = "ready"
          /\ view = ViewL1("real", n, ix, iy)
          /\ call = NoCall
          /\ X = Layout(RealX(a), n, ix)
          /\ Y = Layout(RealY(n, y0), n, iy)
          /\ A = <<R(f), R(sh[1]), R(sh[2]), R(sh[3]), R(sh[4])>>
          /\ B = NoBuf /\ C = NoBuf
          /\ pre = [X |-> NoBuf, Y |-> NoBuf, A |-> NoBuf, B |-> NoBuf, C |-> NoBuf]
          /\ ret = NoOut
          /\ out = NoOut

FlagOk == A[1].re \in ListedFlags

Call_givens_mod_rot_f32 ==
    \E xy \in VendorOutcomes(FlagOk,
                givens_mod_rot_f32(view.n, X, view.inc_x, Y, view.inc_y, A), <<X, Y>>) :
        Finish([op |-> "givens_mod_rot_f32"], xy[1], xy[2], UnitRet, NoOut)

SpecRot == InitRot /\ [][Call_givens_mod_rot_f32]_vars

-----------------------------------------------------------------------------
(* Two calls of scale_plus in flight at once.  X is the memory both are  *)
(* given pointers into, view holds the arguments of the two calls, call  *)
(* holds how far each has come and the elements each has loaded.         *)

Callers == {1, 2}

\* The memory has room for three vectors of MaxN elements.
MemLen == 3 * MaxN

\* The slots (from 1) a pointer to slot base, a count n and a stride inc reach.
Slots(base, n, inc) == {base + i * inc : i \in 0..(n - 1)}

\* x is `*const`: read.  y is `*mut`: read and written.
ReadView(c) == Slots(c.x, c.n, c.inc_x)
WriteView(c) == Slots(c.y, c.n, c.inc_y)

\* No write view of one call meets a view of the other.
Apart(c, d) ==
    /\ WriteView(c) \cap (ReadView(d) \cup WriteView(d)) = {}
    /\ WriteView(d) \cap (ReadView(c) \cup WriteView(c)) = {}

\* Where a call keeps the elements it has loaded if every call kept them
\* in one place shared by the process.
Scratch_of_the_process(p) == 1

\* Where the call p keeps the elements it has loaded: the arguments are
\* passed by value and by pointer, and a call has nothing else.
Scratch(p) == p

ArgsOfCall == [n : 1..MaxN, alpha : {R(2), R(0 - 1)}, x : 1..MemLen, inc_x : 1..2,
               y : 1..MemLen, inc_y : 1..2]

InitPar ==
    \E c \in ArgsOfCall, d \in ArgsOfCall :
        /\ c.alpha = R(2) /\ d.alpha = R(0 - 1)
        /\ (ReadView(c) \cup WriteView(c) \cup ReadView(d) \cup WriteView(d)) \subseteq 1..MemLen
        /\ ReadView(c) \cap WriteView(c) = {}
        /\ ReadView(d) \cap WriteView(d) = {}
        /\ Apart(c, d)
        /\ pc = "running"
        /\ view = <<c, d>>
        /\ call = [op |-> "scale_plus", i |-> <<0, 0>>, at |-> <<"load_x", "load_x">>,
                   rx |-> <<R(0), R(0)>>, ry |-> <<R(0), R(0)>>]
        /\ X = [o \in 1..MemLen |-> R(o)]
        /\ Y = NoBuf /\ A = NoBuf /\ B = NoBuf /\ C = NoBuf
        /\ pre = [X |-> X, Y |-> NoBuf, A |-> NoBuf, B |-> NoBuf, C |-> NoBuf]
        /\ ret = NoOut
        /\ out = NoOut

\* The call p loads the element of x it has come to.
Load_x ==
    \E p \in Callers :
        /\ call.at[p] = "load_x"
        /\ call' = [call EXCEPT !.rx[Scratch(p)] = X[view[p].x + call.i[p] * view[p].inc_x],
                                !.at[p] = "load_y"]
        /\ UNCHANGED <<pc, view, X, Y, A, B, C, pre, ret, out>>

\* The call p loads the element of y it has come to.
Load_y ==
    \E p \in Callers :
        /\ call.at[p] = "load_y"
        /\ call' = [call EXCEPT !.ry[Scratch(p)] = X[view[p].y + call.i[p] * view[p].inc_y],
                                !.at[p] = "store_y"]
        /\ UNCHANGED <<pc, view, X, Y, A, B, C, pre, ret, out>>

\* The call p stores alpha * x + y into the element of y and goes on to the
\* next element, or returns after the n-th.
Store_y ==
    \E p \in Callers :
        /\ call.at[p] = "store_y"
        /\ X' = [X EXCEPT ![view[p].y + call.i[p] * view[p].inc_y] =
                     CAdd(CMul(view[p].alpha, call.rx[Scratch(p)]), call.ry[Scratch(p)])]
        /\ call' = [call EXCEPT !.i[p] = @ + 1,
                                !.at[p] = IF call.i[p] + 1 >= view[p].n THEN "returned"
                                          ELSE "load_x"]
        /\ pc' = IF \A q \in Callers : call'.at[q] = "returned" THEN "done" ELSE "running"
        /\ UNCHANGED <<view, Y, A, B, C, pre, ret, out>>

NextPar ==
    \/ Load_x
    \/ Load_y
    \/ Store_y

SpecPar == InitPar /\ [][NextPar]_vars

-----------------------------------------------------------------------------
(* Level 1 properties *)

Called(ops) == pc = "done" /\ call.op \in ops
ForwardStrides == view.inc_x > 0 /\ view.inc_y > 0

\* Logical element i (0-based) of the vectors before and after the call.
XBefore(i) == pre.X[i * view.inc_x + 1]
YBefore(i) == pre.Y[i * view.inc_y + 1]
XAfter(i) == X[i * view.inc_x + 1]
YAfter(i) == Y[i * view.inc_y + 1]
YLogical == [i \in 1..view.n |-> YAfter(i - 1)]

\* The sum of f[1] .. f[k].
RECURSIVE SumUpTo(_, _)
SumUpTo(f, k) == IF k = 0 THEN R(0) ELSE CAdd(SumUpTo(f, k - 1), f[k])

\* C1: scaled_add (scale_plus, scaled_plus) with forward strides leaves
\* y_i = alpha * x_i + old(y_i) at every logical index and x as it was;
\* n = 3, x = [1,2,3], y = [4,5,6], alpha = 2 gives y = [6,9,12].
C1_ScaledAdd ==
    (Called({"scale_plus", "scaled_plus"}) /\ ForwardStrides) =>
        /\ \A i \in 0..(view.n - 1) :
              YAfter(i) = CAdd(CMul(call.alpha, XBefore(i)), YBefore(i))
        /\ X = pre.X
        /\ (/\ view.n = 3
            /\ [i \in 1..3 |-> XBefore(i - 1)] = ScenarioX
            /\ [i \in 1..3 |-> YBefore(i - 1)] = ScenarioY
            /\ call.alpha = R(2)) => YLogical = <<R(6), R(9), R(12)>>

\* C1: the scenario call has been made and left [6,9,12] in y.
C1_Witness ==
    /\ Called({"scale_plus"})
    /\ view.n = 3
    /\ call.alpha = R(2)
    /\ pre.Y = Layout(ScenarioY, 3, 1)
    /\ YLogical = <<R(6), R(9), R(12)>>

DotTerms == [i \in 1..view.n |-> CMul(XBefore(i - 1), YBefore(i - 1))]
DotConjTerms == [i \in 1..view.n |-> CMul(Conj(XBefore(i - 1)), YBefore(i - 1))]

\* C2: dot returns the sum of x_i * y_i (32 for [1,2,3] and [4,5,6]);
\* dot_plus returns that sum plus sb, added once whatever n is; the
\* conjugated complex variant stores the sum of conj(x_i) * y_i and the
\* unconjugated one the sum of x_i * y_i; the vectors are not modified.
C2_Dot ==
    (Called({"dot", "dot_plus", "dot_conj_plus", "dot_unconj_plus"}) /\ ForwardStrides) =>
        /\ call.op = "dot" => ret = Value(SumUpTo(DotTerms, view.n))
        /\ call.op = "dot_plus" => ret = Value(CAdd(SumUpTo(DotTerms, view.n), call.sb))
        /\ call.op = "dot_conj_plus" => out = Value(SumUpTo(DotConjTerms, view.n))
        /\ call.op = "dot_unconj_plus" => out = Value(SumUpTo(DotTerms, view.n))
        /\ (call.op = "dot" /\ pre.X = Layout(ScenarioX, 3, 1)
                /\ pre.Y = Layout(ScenarioY, 3, 1)) => ret = Value(R(32))
        /\ X = pre.X /\ Y = pre.Y

\* C2: dot of [1,2,3] and [4,5,6] has returned 32.
C2_Witness ==
    /\ Called({"dot"})
    /\ pre.X = Layout(ScenarioX, 3, 1)
    /\ pre.Y = Layout(ScenarioY, 3, 1)
    /\ ret = Value(R(32))

LinCombOps == {"lin_comb", "lin_comb_catlas", "lin_comb_c32_catlas"}

\* C5: every operation exposed under the name lin_comb takes two scalars
\* alpha and beta and leaves y_i = alpha * x_i + beta * old(y_i), x untouched.
C5_LinComb ==
    (Called(LinCombOps) /\ ForwardStrides) =>
        /\ "beta" \in DOMAIN call
        /\ \A i \in 0..(view.n - 1) :
              YAfter(i) = CAdd(CMul(call.alpha, XBefore(i)), CMul(call.beta, YBefore(i)))
        /\ X = pre.X

\* The bindings that take one vector, and those that return a number.
OneVectorOps == {"scale", "argmax_mod"}
NumberOps == {"dot", "dot_plus", "argmax_mod"}

ZeroStrideGiven ==
    /\ view.n >= 1
    /\ \/ view.inc_x = 0
       \/ call.op \notin OneVectorOps /\ view.inc_y = 0

C17_IdentityScalars ==
    /\ (Called({"scale_plus", "scaled_plus"}) /\ call.alpha = R(0)) => Y = pre.Y
    /\ (Called({"scale"}) /\ call.alpha = R(1)) => X = pre.X

\* C17: scale with alpha = 1 has gone over two elements that are not both
\* zero, with stride 2.
C17_Witness ==
    /\ Called({"scale"})
    /\ call.alpha = R(1)
    /\ view.n = 2 /\ view.inc_x = 2
    /\ XBefore(1) # R(0)
    /\ X = pre.X

C18_WitnessTie ==
    /\ Called({"argmax_mod"})
    /\ view.n = 2 /\ view.inc_x = 2
    /\ XBefore(0) = R(0 - 1) /\ XBefore(1) = R(1)
    /\ ret = Value(0)

\* C15: one call of swap on two views that do not overlap leaves
\* x_i = old(y_i) and y_i = old(x_i) for all i < n, and after an even number
\* of calls with the same arguments both buffers hold what they held before
\* the first.
C15_Swap ==
    (Called({"swap"}) /\ ForwardStrides) =>
        /\ CallsMade % 2 = 1 =>
              \A i \in 0..(view.n - 1) :
                  XAfter(i) = YBefore(i) /\ YAfter(i) = XBefore(i)
        /\ CallsMade % 2 = 0 => (X = pre.X /\ Y = pre.Y)

\* C15: swap has been called four times on two vectors of two elements
\* that differ, complex ones, with strides 2 and 1.
C15_Witness ==
    /\ Called({"swap"})
    /\ CallsMade = 4
    /\ view.dom = "complex" /\ view.n = 2 /\ view.inc_x = 2 /\ view.inc_y = 1
    /\ XBefore(0) # YBefore(0) /\ XBefore(1) # YBefore(1)
    /\ X = pre.X /\ Y = pre.Y

\* C16: a call of copy leaves y_i = x_i for all i < n and x as it was; a
\* second identical call changes nothing; and a call with x and y the same
\* pointer and the same increment changes no element of the buffer.
C16_Copy ==
    [][/\ (call'.op = "copy" /\ ForwardStrides) =>
            /\ \A i \in 0..(view.n - 1) :
                  Y'[i * view.inc_y + 1] = X[i * view.inc_x + 1]
            /\ X' = X
       /\ (call.op = "copy" /\ call'.op = "copy" /\ ForwardStrides) => Y' = Y
       /\ (call'.op = "copy_in_place" /\ view.inc_x > 0) => (X' = X /\ Y' = Y)]_vars

\* C16: copy has been called twice on an x of two elements and a y that
\* held something else.
C16_Witness ==
    /\ Called({"copy"})
    /\ CallsMade = 2
    /\ view.n = 2 /\ view.inc_x = 1 /\ view.inc_y = 2
    /\ YBefore(0) # XBefore(0) /\ YBefore(1) # XBefore(1)
    /\ YAfter(0) = XBefore(0) /\ YAfter(1) = XBefore(1)

\* C16: copy has been called with x for y on two elements with stride 2.
C16_WitnessInPlace ==
    /\ Called({"copy_in_place"})
    /\ view.n = 2 /\ view.inc_x = 2
    /\ X = pre.X

TwoVectorOps == {"dot", "scale_plus", "copy", "swap", "lin_comb_catlas"}

\* The slots of a buffer from logical element n onwards.
Beyond(buf, inc) == {o \in DOMAIN buf : o - 1 >= view.n * inc}

ViewOffsets(n, inc) == {i * inc + 1 : i \in 0..(n - 1)}

\* The buffer with v in every slot that the view does not map an element to.
Scrubbed(buf, n, inc, v) ==
    [o \in DOMAIN buf |-> IF o \in ViewOffsets(n, inc) THEN buf[o] ELSE v]

\* C27: through a view of n elements with a stride s > 0 a kernel reads and
\* writes the offsets i * s with 0 <= i < n only.  The slots between them
\* and the slot at n * s are as before the call, whatever is written, and
\* what the call returns or writes does not depend on what they hold.
C27_AccessBound ==
    (Called({"norm1", "scale", "scale_plus", "dot"}) /\ ForwardStrides) =>
        /\ DOMAIN X = DOMAIN pre.X /\ DOMAIN Y = DOMAIN pre.Y
        /\ \A o \in DOMAIN X : o \notin ViewOffsets(view.n, view.inc_x) => X[o] = pre.X[o]
        /\ \A o \in DOMAIN Y : o \notin ViewOffsets(view.n, view.inc_y) => Y[o] = pre.Y[o]
        /\ X[view.n * view.inc_x + 1] = pre.X[view.n * view.inc_x + 1]
        /\ Y[view.n * view.inc_y + 1] = pre.Y[view.n * view.inc_y + 1]
        /\ \A o \in ViewOffsets(view.n, view.inc_x) : o <= (view.n - 1) * view.inc_x + 1
        /\ \A d \in {R(0), R(7)} :
              LET sx == Scrubbed(pre.X, view.n, view.inc_x, d)
                  sy == Scrubbed(pre.Y, view.n, view.inc_y, d)
              IN  /\ Called({"norm1"}) => ret = Value(norm1(view.n, sx, view.inc_x))
                  /\ Called({"dot"}) =>
                        ret = Value(dot(view.n, sx, view.inc_x, sy, view.inc_y))
                  /\ Called({"scale"}) =>
                        scale(view.n, call.alpha, sx, view.inc_x)
                            = Scrubbed(X, view.n, view.inc_x, d)
                  /\ Called({"scale_plus"}) =>
                        scale_plus(view.n, call.alpha, sx, view.inc_x, sy, view.inc_y)
                            = Scrubbed(Y, view.n, view.inc_y, d)

\* C27: scale has returned for two elements two slots apart and has changed
\* both; the slot between them and the slot after the second hold what
\* they held.
C27_Witness ==
    /\ Called({"scale"})
    /\ view.n = 2 /\ view.inc_x = 2
    /\ X[1] # pre.X[1] /\ X[3] # pre.X[3]
    /\ X[2] = Pad /\ X[4] = Pad /\ X[5] = Pad

\* C27: norm1 has returned a sum other than zero for two elements two slots
\* apart.
C27_WitnessRead ==
    /\ Called({"norm1"})
    /\ view.n = 2 /\ view.inc_x = 2
    /\ X[1] # R(0) /\ X[3] # R(0)
    /\ ret = Value(R(Abs(X[1].re) + Abs(X[3].re)))

\* C29: givens_mod_rot_f32 replaces each pair (x_i, y_i), i < n, by
\* H * (x_i, y_i), where the flag p[0] selects H: -2 the identity (x and y
\* are left as they were), -1 H = [[p1, p3], [p2, p4]], 0 H = [[1, p3],
\* [p2, 1]], 1 H = [[p1, 1], [-1, p4]].  The slots of x and y between the
\* elements, and p, are not written.
C29_ModifiedGivens ==
    (Called({"givens_mod_rot_f32"}) /\ FlagOk) =>
        LET f == pre.A[1].re
            p1 == pre.A[2].re
            p2 == pre.A[3].re
            p3 == pre.A[4].re
            p4 == pre.A[5].re
            x(i) == Rd(pre.X, i * view.inc_x).re
            y(i) == Rd(pre.Y, i * view.inc_y).re
        IN  /\ \A i \in 0..(view.n - 1) :
                  /\ f = 0 - 2 =>
                        /\ Rd(X, i * view.inc_x) = R(x(i))
                        /\ Rd(Y, i * view.inc_y) = R(y(i))
                  /\ f = 0 - 1 =>
                        /\ Rd(X, i * view.inc_x) = R(p1 * x(i) + p3 * y(i))
                        /\ Rd(Y, i * view.inc_y) = R(p2 * x(i) + p4 * y(i))
                  /\ f = 0 =>
                        /\ Rd(X, i * view.inc_x) = R(x(i) + p3 * y(i))
                        /\ Rd(Y, i * view.inc_y) = R(p2 * x(i) + y(i))
                  /\ f = 1 =>
                        /\ Rd(X, i * view.inc_x) = R(p1 * x(i) + y(i))
                        /\ Rd(Y, i * view.inc_y) = R(p4 * y(i) - x(i))
            /\ f = 0 - 2 => (X = pre.X /\ Y = pre.Y)
            /\ \A o \in DOMAIN X : o \notin ViewOffsets(view.n, view.inc_x) => X[o] = pre.X[o]
            /\ \A o \in DOMAIN Y : o \notin ViewOffsets(view.n, view.inc_y) => Y[o] = pre.Y[o]
            /\ A = pre.A
            /\ ret = UnitRet

\* C29: the transformation with the flag -1 and SH = [[2, 5], [3, 7]] has
\* been applied to two pairs and has changed x and y.
C29_Witness ==
    /\ Called({"givens_mod_rot_f32"})
    /\ A = <<R(0 - 1), R(2), R(3), R(5), R(7)>>
    /\ view.n = 2
    /\ Logical(X, 2, view.inc_x)[1] # Logical(pre.X, 2, view.inc_x)[1]
    /\ Logical(Y, 2, view.inc_y)[2] # Logical(pre.Y, 2, view.inc_y)[2]

\* C29: the transformation with the flag 0 has changed a pair of elements.
C29_WitnessFlagZero ==
    /\ Called({"givens_mod_rot_f32"})
    /\ A[1] = R(0)
    /\ view.n >= 1
    /\ Rd(X, 0) # Rd(pre.X, 0)
    /\ Rd(Y, 0) # Rd(pre.Y, 0)

\* The buffer a pointer to slot base of the memory gives a call that reaches
\* n elements with the stride inc.
BufferAt(mem, base, n, inc) == [o \in 1..((n - 1) * inc + 1) |-> mem[base + o - 1]]

\* The memory after scale_plus has run with the arguments c and no other
\* call beside it.
Alone(mem, c) ==
    LET yy == scale_plus(c.n, c.alpha, BufferAt(mem, c.x, c.n, c.inc_x), c.inc_x,
                         BufferAt(mem, c.y, c.n, c.inc_y), c.inc_y)
    IN  [o \in DOMAIN mem |->
            IF o \in c.y..(c.y + (c.n - 1) * c.inc_y) THEN yy[o - c.y + 1] ELSE mem[o]]

C21_WitnessInFlight ==
    /\ pc = "running"
    /\ call.at = <<"store_y", "store_y">>
    /\ call.i = <<1, 0>>
    /\ view[1].n = 2 /\ view[2].n = 2

-----------------------------------------------------------------------------
(* Matrix views *)

\* Element (i, j), 0-based, of a matrix stored with leading dimension ld.
\* Addr as it would be if every matrix were taken for column-major.
Addr_column_major_only(major, i, j, ld) == j * ld + i

Addr(major, i, j, ld) == IF major = RowMajor THEN i * ld + j ELSE j * ld + i

\* The smallest leading dimension a rows x cols matrix can be stored with.
MinLd(major, rows, cols) == IF major = RowMajor THEN cols ELSE rows

Cells(rows, cols) == (0..(rows - 1)) \X (0..(cols - 1))

\* The caller's buffer for the logical matrix M (a function on Cells),
\* written line after line -- a line is a row in row-major and a column in
\* column-major order -- each line taking ld slots of which the first
\* hold its elements; one more slot follows the last line.
Lines(major, rows, cols) == IF major = RowMajor THEN rows ELSE cols
LineLen(major, rows, cols) == IF major = RowMajor THEN cols ELSE rows
MatLen(major, rows, cols, ld) == Lines(major, rows, cols) * ld + 1
MatLayout(M, major, rows, cols, ld) ==
    [o \in 1..MatLen(major, rows, cols, ld) |->
        LET line == (o - 1) \div ld
            pos == (o - 1) % ld
        IN  IF line < Lines(major, rows, cols) /\ pos < LineLen(major, rows, cols)
            THEN IF major = RowMajor THEN M[<<line, pos>>] ELSE M[<<pos, line>>]
            ELSE Pad]

\* The leading dimension the caller's matrix is really stored with: the one
\* passed when it is large enough, the smallest possible one otherwise.
StoredLd(major, rows, cols, ld) ==
    IF ld >= MinLd(major, rows, cols) THEN ld ELSE MinLd(major, rows, cols)

MatAt(a, major, ld, i, j) == Rd(a, Addr(major, i, j, ld))

\* Element (i, j) of op(A), read in place: nothing is transposed in memory.
OpAt(a, major, trans, ld, i, j) ==
    IF trans = NoTrans THEN MatAt(a, major, ld, i, j)
    ELSE IF trans = Trans THEN MatAt(a, major, ld, j, i)
    ELSE Conj(MatAt(a, major, ld, j, i))

-----------------------------------------------------------------------------
(* Level 2 routines *)

\* Row i of op(A) times x.
RECURSIVE gemv_row(_, _, _, _, _, _, _, _, _, _)
gemv_row(j, lenx, acc, major, trans, a, lda, i, x, inc_x) ==
    IF j >= lenx THEN acc
    ELSE gemv_row(j + 1, lenx,
                  CAdd(acc, CMul(OpAt(a, major, trans, lda, i, j), Rd(x, VOff(j, inc_x)))),
                  major, trans, a, lda, i, x, inc_x)

\* cblas_sgemv / cblas_cgemv: y = alpha * op(A) * x + beta * y.
RECURSIVE gemv(_, _, _, _, _, _, _, _, _, _, _, _, _)
gemv(i, leny, lenx, major, trans, alpha, a, lda, x, inc_x, beta, y, inc_y) ==
    IF i >= leny THEN y
    ELSE gemv(i + 1, leny, lenx, major, trans, alpha, a, lda, x, inc_x, beta,
              Wr(y, VOff(i, inc_y),
                 CAdd(CMul(alpha, gemv_row(0, lenx, R(0), major, trans, a, lda, i, x, inc_x)),
                      CMul(beta, Rd(y, VOff(i, inc_y))))),
              inc_y)

\* The lengths of x and y for an m x n matrix under a transpose mode.
LenX(trans, m, n) == IF trans = NoTrans THEN n ELSE m
LenY(trans, m, n) == IF trans = NoTrans THEN m ELSE n

\* cblas_sger: A = alpha * x * y' + A, element by element in row order.
RECURSIVE ger(_, _, _, _, _, _, _, _, _, _, _)
ger(c, m, n, major, alpha, x, inc_x, y, inc_y, a, lda) ==
    IF c >= m * n THEN a
    ELSE LET i == c \div n
             j == c % n
         IN  ger(c + 1, m, n, major, alpha, x, inc_x, y, inc_y,
                 Wr(a, Addr(major, i, j, lda),
                    CAdd(CMul(alpha, CMul(Rd(x, VOff(i, inc_x)), Rd(y, VOff(j, inc_y)))),
                         MatAt(a, major, lda, i, j))),
                 lda)

\* mat_vec_mul as it would be if conjugate-transpose were taken for transpose.
mat_vec_mul_no_conj(major, trans, m, n, alpha, a, lda, x, inc_x, beta, y, inc_y) ==
    gemv(0, LenY(trans, m, n), LenX(trans, m, n), major,
         IF trans = ConjTrans THEN Trans ELSE trans,
         alpha, a, lda, x, inc_x, beta, y, inc_y)

\* matrix_f32.rs mat_vec_mul -> cblas_sgemv; matrix_c32.rs mat_vec_mul -> cblas_cgemv
mat_vec_mul(major, trans, m, n, alpha, a, lda, x, inc_x, beta, y, inc_y) ==
    gemv(0, LenY(trans, m, n), LenX(trans, m, n), major, trans,
         alpha, a, lda, x, inc_x, beta, y, inc_y)

\* matrix_f32.rs mat_rank1_update -> cblas_sger
mat_rank1_update(major, m, n, alpha, x, inc_x, y, inc_y, a, lda) ==
    ger(0, m, n, major, alpha, x, inc_x, y, inc_y, a, lda)

\* The return of a binding that validated its leading dimension first.
unit_return_ld_checked(major, rows, cols, ld) ==
    IF ld < MinLd(major, rows, cols) THEN Err("InvalidDimension") ELSE UnitRet

\* The return of a binding that validated the leading dimensions of all
\* the matrices of the call first.
unit_return_dims_checked(major, rows, cols, ld) ==
    IF \/ ld < MinLd(major, rows, cols)
       \/ /\ "ldb" \in DOMAIN view
          /\ \/ view.lda < MinLd(major, IF view.trans_a = NoTrans THEN view.m ELSE view.k,
                                         IF view.trans_a = NoTrans THEN view.k ELSE view.m)
             \/ view.ldb < MinLd(major, IF view.trans_b = NoTrans THEN view.k ELSE view.n,
                                         IF view.trans_b = NoTrans THEN view.n ELSE view.k)
    THEN Err("InvalidDimension") ELSE UnitRet

\* The return of a binding that accepted only the three transpose modes
\* none, transpose and conjugate-transpose.
unit_return_enum_checked(major, rows, cols, ld) ==
    IF "trans" \in DOMAIN view /\ view.trans \notin {NoTrans, Trans, ConjTrans}
    THEN Err("InvalidEnum") ELSE UnitRet

\* What mat_vec_mul, mat_rank1_update and the other matrix bindings hand
\* back: `()`, whatever the leading dimension.
unit_return_ld(major, rows, cols, ld) == UnitRet

-----------------------------------------------------------------------------
(* Level 2: the caller prepares a matrix and two vectors, then calls *)

\* The matrices and vectors of the caller, from two seeds.
RealA(p, q, m, n) == [c \in Cells(m, n) |-> R(p + q * c[1] - c[2])]
ComplexA(p, q, m, n) == [c \in Cells(m, n) |-> Cx(p + q * c[1] - c[2], q - c[1] + p * c[2])]
RealV(n, s) == [i \in 1..n |-> R(s - i)]
ComplexV(n, s, t) == [i \in 1..n |-> Cx(s - i, t + i)]

StridePairs == {<<2, 1>>, <<1, 2>>}
LdChoices(min) == {min - 1, min, min + 1}
GemvTrans == {NoTrans, Trans, ConjTrans}
GemvRealPairs == RealPairs \cup {<<R(1), R(0)>>}

ViewL2(dom, major, m, n, lda, xlen, ylen, ix, iy, M) ==
    [dom |-> dom, major |-> major, m |-> m, n |-> n, lda |-> lda,
     xlen |-> xlen, ylen |-> ylen, inc_x |-> ix, inc_y |-> iy, Am |-> M]

StartL2(v, xs, ys) ==
    /\ pc = "ready"
    /\ view = v
    /\ call = NoCall
    /\ X = Layout(xs, v.xlen, v.inc_x)
    /\ Y = Layout(ys, v.ylen, v.inc_y)
    /\ A = MatLayout(v.Am, v.major, v.m, v.n, StoredLd(v.major, v.m, v.n, v.lda))
    /\ B = NoBuf /\ C = NoBuf
    /\ pre = [X |-> NoBuf, Y |-> NoBuf, A |-> NoBuf, B |-> NoBuf, C |-> NoBuf]
    /\ ret = NoOut
    /\ out = NoOut

\* spec.md section 8: row-major A = [[2,0],[0,3]], x = [1,1]
ScenarioA == [c \in Cells(2, 2) |-> IF c = <<0, 0>> THEN R(2)
                                    ELSE IF c = <<1, 1>> THEN R(3) ELSE R(0)]

InitL2 ==
    \/ \E major \in CblasOrder, m \in 1..MaxDim, n \in 1..MaxDim, sp \in StridePairs :
         \E lda \in LdChoices(MinLd(major, m, n)), sh \in {<<n, m>>, <<m, n>>} :
            \E p \in Vals, q \in Vals :
               \/ StartL2(ViewL2("real", major, m, n, lda, sh[1], sh[2], sp[1], sp[2],
                                 RealA(p, q, m, n)),
                          RealV(sh[1], q), RealV(sh[2], p))
               \/ StartL2(ViewL2("complex", major, m, n, lda, sh[1], sh[2], sp[1], sp[2],
                                 ComplexA(p, q, m, n)),
                          ComplexV(sh[1], q, p), ComplexV(sh[2], p, q))
    \/ StartL2(ViewL2("real", RowMajor, 2, 2, 2, 2, 2, 1, 1, ScenarioA),
               <<R(1), R(1)>>, <<R(4), R(5)>>)

LdOk == view.lda >= MinLd(view.major, view.m, view.n)

\* A matrix with at least one row and one column.  With an empty x the
\* documented formula leaves beta * y in y, where the routine may as well
\* return at once: the source does not say which.
NonEmpty == view.m >= 1 /\ view.n >= 1

Call_mat_vec_mul_f32 ==
    /\ view.dom = "real"
    /\ \E trans \in GemvTrans, ab \in GemvRealPairs :
        /\ LenX(trans, view.m, view.n) = view.xlen
        /\ LenY(trans, view.m, view.n) = view.ylen
        /\ \E yy \in VendorOutcomes(LdOk /\ NonEmpty,
                    mat_vec_mul(view.major, trans, view.m, view.n, ab[1], A, view.lda,
                                X, view.inc_x, ab[2], Y, view.inc_y), Y) :
              Finish([op |-> "mat_vec_mul", trans |-> trans, alpha |-> ab[1], beta |-> ab[2]],
                     X, yy, unit_return_ld(view.major, view.m, view.n, view.lda), NoOut)

Call_mat_vec_mul_c32 ==
    /\ view.dom = "complex"
    /\ \E trans \in GemvTrans, ab \in ComplexPairs :
        /\ LenX(trans, view.m, view.n) = view.xlen
        /\ LenY(trans, view.m, view.n) = view.ylen
        /\ \E yy \in VendorOutcomes(LdOk /\ NonEmpty,
                    mat_vec_mul(view.major, trans, view.m, view.n, ab[1], A, view.lda,
                                X, view.inc_x, ab[2], Y, view.inc_y), Y) :
              Finish([op |-> "mat_vec_mul", trans |-> trans, alpha |-> ab[1], beta |-> ab[2]],
                     X, yy, unit_return_ld(view.major, view.m, view.n, view.lda), NoOut)

Call_mat_rank1_update ==
    /\ view.dom = "real"
    /\ view.xlen = view.m
    /\ view.ylen = view.n
    /\ \E alpha \in RealScalars :
        \E aa \in VendorOutcomes(LdOk,
                    mat_rank1_update(view.major, view.m, view.n, alpha, X, view.inc_x,
                                     Y, view.inc_y, A, view.lda), A) :
              Return([op |-> "mat_rank1_update", alpha |-> alpha], X, Y, aa, C,
                     unit_return_ld(view.major, view.m, view.n, view.lda), NoOut)

NextL2 ==
    \/ Call_mat_vec_mul_f32
    \/ Call_mat_vec_mul_c32
    \/ Call_mat_rank1_update

SpecL2 == InitL2 /\ [][NextL2]_vars

-----------------------------------------------------------------------------
(* Level 2 properties *)

\* Element (i, j) of op(A) for the matrix the caller laid out.
OpOf(M, trans, i, j) ==
    IF trans = NoTrans THEN M[<<i, j>>]
    ELSE IF trans = Trans THEN M[<<j, i>>]
    ELSE Conj(M[<<j, i>>])

RowTerms(M, trans, i, len) == [j \in 1..len |-> CMul(OpOf(M, trans, i, j - 1), XBefore(j - 1))]

\* C3: mat_vec_mul on an m x n matrix in either storage order leaves
\* y = alpha * op(A) * x + beta * old(y), with x of n and y of m elements for
\* op = identity and x of m and y of n elements for transpose and
\* conjugate-transpose; A and x are unchanged; row-major A = [[2,0],[0,3]],
\* x = [1,1], alpha = 1, beta = 0 gives y = [2,3].
C3_MatVecMul ==
    (Called({"mat_vec_mul"}) /\ LdOk) =>
        /\ view.xlen = (IF call.trans = NoTrans THEN view.n ELSE view.m)
        /\ view.ylen = (IF call.trans = NoTrans THEN view.m ELSE view.n)
        /\ \A i \in 0..(view.ylen - 1) :
              YAfter(i) = CAdd(CMul(call.alpha,
                                    SumUpTo(RowTerms(view.Am, call.trans, i, view.xlen),
                                            view.xlen)),
                               CMul(call.beta, YBefore(i)))
        /\ A = pre.A /\ X = pre.X
        /\ (/\ view.Am = ScenarioA /\ view.major = RowMajor /\ call.trans = NoTrans
            /\ call.alpha = R(1) /\ call.beta = R(0))
              => [i \in 1..2 |-> YAfter(i - 1)] = <<R(2), R(3)>>

\* C3: the scenario call has been made and left [2,3] in y, which held
\* [4,5] before.
C3_Witness ==
    /\ Called({"mat_vec_mul"})
    /\ view.Am = ScenarioA /\ view.major = RowMajor /\ call.trans = NoTrans
    /\ call.alpha = R(1) /\ call.beta = R(0)
    /\ pre.Y = <<R(4), R(5), Pad>>
    /\ Y = <<R(2), R(3), Pad>>

\* C3: a conjugate-transpose call on a complex 2 x 1 column-major matrix.
C3_WitnessConj ==
    /\ Called({"mat_vec_mul"})
    /\ view.dom = "complex" /\ call.trans = ConjTrans /\ view.m = 2 /\ view.n = 1
    /\ LdOk /\ view.major = ColMajor
    /\ Y # pre.Y

AddressesDistinct ==
    \A c \in Cells(view.m, view.n), d \in Cells(view.m, view.n) :
        c # d => Addr(view.major, c[1], c[2], view.lda) # Addr(view.major, d[1], d[2], view.lda)

MatrixOps == {"mat_vec_mul", "mat_rank1_update"}

-----------------------------------------------------------------------------
(* Triangular routines of Level 2 *)

InTriangle(uplo, r, c) == IF uplo = Upper THEN r <= c ELSE r >= c

\* Element (i, j) of op(T), T being the triangular matrix the arguments
\* describe: the triangle uplo of the stored A, zero in the other one, and
\* on the diagonal 1 for a unit triangular matrix, whose stored diagonal is
\* not read.  The transpose is used for 'T' and 'C', A itself otherwise.
TriAt(a, major, uplo, trans, diag, lda, i, j) ==
    LET r == IF trans \in {Trans, ConjTrans} THEN j ELSE i
        c == IF trans \in {Trans, ConjTrans} THEN i ELSE j
    IN  IF r = c THEN (IF diag = Unit THEN R(1) ELSE MatAt(a, major, lda, r, r))
        ELSE IF InTriangle(uplo, r, c) THEN MatAt(a, major, lda, r, c)
        ELSE R(0)

\* op(T) has its non-zero elements on and below the diagonal.
LowerOp(uplo, trans) == (uplo = Lower) = (trans \notin {Trans, ConjTrans})

\* Row i of op(T) times x, without the diagonal term.
RECURSIVE tri_row(_, _, _, _, _, _, _, _, _, _, _, _)
tri_row(j, n, acc, a, major, uplo, trans, diag, lda, i, x, inc_x) ==
    IF j >= n THEN acc
    ELSE tri_row(j + 1, n,
                 IF j = i THEN acc
                 ELSE CAdd(acc, CMul(TriAt(a, major, uplo, trans, diag, lda, i, j),
                                     Rd(x, VOff(j, inc_x)))),
                 a, major, uplo, trans, diag, lda, i, x, inc_x)

\* cblas_strmv: x = op(T) * x, each element computed from the x passed in.
RECURSIVE trmv(_, _, _, _, _, _, _, _, _, _, _)
trmv(i, n, a, major, uplo, trans, diag, lda, x, xx, inc_x) ==
    IF i >= n THEN xx
    ELSE trmv(i + 1, n, a, major, uplo, trans, diag, lda, x,
              Wr(xx, VOff(i, inc_x),
                 CAdd(CMul(TriAt(a, major, uplo, trans, diag, lda, i, i), Rd(x, VOff(i, inc_x))),
                      tri_row(0, n, R(0), a, major, uplo, trans, diag, lda, i, x, inc_x))),
              inc_x)

\* The quotient of two real elements.
Div(a, d) == R(a.re \div d.re)

\* cblas_strsv: x = inverse(op(T)) * x by substitution, in place: forwards
\* from element 0 when op(T) is lower triangular, backwards from element
\* n - 1 when it is upper triangular.  The elements not yet solved meet
\* zeros of op(T).  The diagonal divides unless the matrix is unit
\* triangular.
RECURSIVE trsv(_, _, _, _, _, _, _, _, _, _)
trsv(s, n, a, major, uplo, trans, diag, lda, x, inc_x) ==
    IF s >= n THEN x
    ELSE LET i == IF LowerOp(uplo, trans) THEN s ELSE n - 1 - s
             rest == CAdd(Rd(x, VOff(i, inc_x)),
                          CMul(R(0 - 1), tri_row(0, n, R(0), a, major, uplo, trans, diag,
                                                 lda, i, x, inc_x)))
         IN  trsv(s + 1, n, a, major, uplo, trans, diag, lda,
                  Wr(x, VOff(i, inc_x),
                     IF diag = Unit THEN rest
                     ELSE Div(rest, MatAt(a, major, lda, i, i))),
                  inc_x)

\* tri_mat_vec_mul as it would be if it multiplied by the stored diagonal
\* of a unit triangular matrix.
tri_mat_vec_mul_reads_diagonal(major, uplo, trans, diag, n, a, lda, x, inc_x) ==
    trmv(0, n, a, major, uplo, trans, NonUnit, lda, x, x, inc_x)

\* matrix_f32.rs tri_mat_vec_mul -> cblas_strmv
tri_mat_vec_mul(major, uplo, trans, diag, n, a, lda, x, inc_x) ==
    trmv(0, n, a, major, uplo, trans, diag, lda, x, x, inc_x)

\* tri_solve as it would be if every matrix were taken for unit triangular.
tri_solve_never_divides(major, uplo, trans, diag, n, a, lda, x, inc_x) ==
    trsv(0, n, a, major, uplo, trans, Unit, lda, x, inc_x)

\* matrix_f32.rs tri_solve -> cblas_strsv
tri_solve(major, uplo, trans, diag, n, a, lda, x, inc_x) ==
    trsv(0, n, a, major, uplo, trans, diag, lda, x, inc_x)

-----------------------------------------------------------------------------
(* Symmetric and Hermitian matrix-vector multiplies of Level 2 *)

\* Element (i, j) of the symmetric or Hermitian matrix that the triangle tri
\* of the stored A stands for.  An element of the other triangle is the
\* stored element (j, i), conjugated for a Hermitian matrix, whose diagonal
\* is real.
SymAt(a, major, tri, herm, lda, i, j) ==
    IF i = j THEN (IF herm THEN R(MatAt(a, major, lda, i, i).re)
                   ELSE MatAt(a, major, lda, i, i))
    ELSE IF InTriangle(tri, i, j) THEN MatAt(a, major, lda, i, j)
    ELSE IF herm THEN Conj(MatAt(a, major, lda, j, i))
    ELSE MatAt(a, major, lda, j, i)

\* Row i of the matrix times x.
RECURSIVE sym_row(_, _, _, _, _, _, _, _, _, _, _)
sym_row(j, n, acc, a, major, tri, herm, lda, i, x, inc_x) ==
    IF j >= n THEN acc
    ELSE sym_row(j + 1, n,
                 CAdd(acc, CMul(SymAt(a, major, tri, herm, lda, i, j),
                                Rd(x, VOff(j, inc_x)))),
                 a, major, tri, herm, lda, i, x, inc_x)

\* cblas_ssymv / cblas_chemv: y = alpha * A * x + beta * y.
RECURSIVE symv(_, _, _, _, _, _, _, _, _, _, _, _, _)
symv(i, n, major, tri, herm, alpha, a, lda, x, inc_x, beta, y, inc_y) ==
    IF i >= n THEN y
    ELSE symv(i + 1, n, major, tri, herm, alpha, a, lda, x, inc_x, beta,
              Wr(y, VOff(i, inc_y),
                 CAdd(CMul(alpha, sym_row(0, n, R(0), a, major, tri, herm, lda, i,
                                         x, inc_x)),
                      CMul(beta, Rd(y, VOff(i, inc_y))))),
              inc_y)

\* sym_mat_vec_mul as it would be if it read A as a general matrix.
sym_mat_vec_mul_reads_both_triangles(major, tri, n, alpha, a, lda, x, inc_x, beta, y, inc_y) ==
    gemv(0, n, n, major, NoTrans, alpha, a, lda, x, inc_x, beta, y, inc_y)

\* matrix_f32.rs sym_mat_vec_mul -> cblas_ssymv
sym_mat_vec_mul(major, tri, n, alpha, a, lda, x, inc_x, beta, y, inc_y) ==
    symv(0, n, major, tri, FALSE, alpha, a, lda, x, inc_x, beta, y, inc_y)

\* matrix_c32.rs herm_mat_vec_mul_add -> cblas_chemv
herm_mat_vec_mul_add(major, tri, n, alpha, a, lda, x, inc_x, beta, y, inc_y) ==
    symv(0, n, major, tri, TRUE, alpha, a, lda, x, inc_x, beta, y, inc_y)

-----------------------------------------------------------------------------
(* Rank updates of a symmetric or Hermitian matrix of Level 2 *)

\* u[<<i, j>>] is added to every element (i, j) of the triangle tri,
\* diagonal included; the other triangle is not referenced.  A Hermitian
\* update leaves the diagonal real.
RECURSIVE tri_update(_, _, _, _, _, _, _, _)
tri_update(c, n, major, tri, herm, u, a, lda) ==
    IF c >= n * n THEN a
    ELSE LET i == c \div n
             j == c % n
             v == CAdd(MatAt(a, major, lda, i, j), u[<<i, j>>])
         IN  tri_update(c + 1, n, major, tri, herm, u,
                        IF ~InTriangle(tri, i, j) THEN a
                        ELSE Wr(a, Addr(major, i, j, lda),
                                IF herm /\ i = j THEN R(v.re) ELSE v),
                        lda)

\* sym_rank_1_update as it would be if it updated the whole of A.
sym_rank_1_update_both_triangles(major, tri, n, alpha, x, inc_x, a, lda) ==
    ger(0, n, n, major, alpha, x, inc_x, x, inc_x, a, lda)

\* sym_rank_1_update as it would be if it took every call for an update of
\* the upper triangle.
sym_rank_1_update_ignores_tri(major, tri, n, alpha, x, inc_x, a, lda) ==
    tri_update(0, n, major, Upper, FALSE,
               [c \in Cells(n, n) |->
                   CMul(alpha, CMul(Rd(x, VOff(c[1], inc_x)), Rd(x, VOff(c[2], inc_x))))],
               a, lda)

\* A = A + alpha * x * x^T
sym_rank_1_update(major, tri, n, alpha, x, inc_x, a, lda) ==
    tri_update(0, n, major, tri, FALSE,
               [c \in Cells(n, n) |->
                   CMul(alpha, CMul(Rd(x, VOff(c[1], inc_x)), Rd(x, VOff(c[2], inc_x))))],
               a, lda)

\* A = A + alpha * x * y^T + alpha * y * x^T
sym_rank_2_update(major, tri, n, alpha, x, inc_x, y, inc_y, a, lda) ==
    tri_update(0, n, major, tri, FALSE,
               [c \in Cells(n, n) |->
                   CMul(alpha,
                        CAdd(CMul(Rd(x, VOff(c[1], inc_x)), Rd(y, VOff(c[2], inc_y))),
                             CMul(Rd(y, VOff(c[1], inc_y)), Rd(x, VOff(c[2], inc_x)))))],
               a, lda)

\* A = A + alpha * x * x^H, alpha real
herm_rank1_update(major, tri, n, alpha, x, inc_x, a, lda) ==
    tri_update(0, n, major, tri, TRUE,
               [c \in Cells(n, n) |->
                   CMul(alpha, CMul(Rd(x, VOff(c[1], inc_x)),
                                    Conj(Rd(x, VOff(c[2], inc_x)))))],
               a, lda)

\* A = A + alpha * x * y^H + conj(alpha) * y * x^H
herm_rank2_update(major, tri, n, alpha, x, inc_x, y, inc_y, a, lda) ==
    tri_update(0, n, major, tri, TRUE,
               [c \in Cells(n, n) |->
                   CAdd(CMul(alpha, CMul(Rd(x, VOff(c[1], inc_x)),
                                         Conj(Rd(y, VOff(c[2], inc_y))))),
                        CMul(Conj(alpha), CMul(Rd(y, VOff(c[1], inc_y)),
                                               Conj(Rd(x, VOff(c[2], inc_x))))))],
               a, lda)

-----------------------------------------------------------------------------
(* Rank updates: the caller's A holds values on both sides of the diagonal *)

ViewSym(dom, major, uplo, n, lda, ix, iy, M) ==
    [dom |-> dom, major |-> major, uplo |-> uplo, m |-> n, n |-> n, lda |-> lda,
     xlen |-> n, ylen |-> n, inc_x |-> ix, inc_y |-> iy, Am |-> M]

InitSym ==
    \E major \in CblasOrder, uplo \in CblasUpLow, n \in 1..MaxDim, sp \in StridePairs :
       \E lda \in LdChoices(n), p \in Vals, q \in Vals :
          \/ StartL2(ViewSym("real", major, uplo, n, lda, sp[1], sp[2], RealA(p, q, n, n)),
                     RealV(n, q), RealV(n, p))
          \/ StartL2(ViewSym("complex", major, uplo, n, lda, sp[1], sp[2],
                             ComplexA(p, q, n, n)),
                     ComplexV(n, q, p), ComplexV(n, p, q))

Call_sym_rank_1_update ==
    /\ view.dom = "real"
    /\ \E alpha \in RealScalars :
        \E aa \in VendorOutcomes(LdOk,
                    sym_rank_1_update(view.major, view.uplo, view.n, alpha, X, view.inc_x,
                                      A, view.lda), A) :
              Return([op |-> "sym_rank_1_update", alpha |-> alpha], X, Y, aa, C,
                     unit_return_ld(view.major, view.n, view.n, view.lda), NoOut)

Call_sym_rank_2_update ==
    /\ view.dom = "real"
    /\ \E alpha \in RealScalars :
        \E aa \in VendorOutcomes(LdOk,
                    sym_rank_2_update(view.major, view.uplo, view.n, alpha, X, view.inc_x,
                                      Y, view.inc_y, A, view.lda), A) :
              Return([op |-> "sym_rank_2_update", alpha |-> alpha], X, Y, aa, C,
                     unit_return_ld(view.major, view.n, view.n, view.lda), NoOut)

Call_herm_rank1_update ==
    /\ view.dom = "complex"
    /\ \E alpha \in RealScalars :
        \E aa \in VendorOutcomes(LdOk,
                    herm_rank1_update(view.major, view.uplo, view.n, alpha, X, view.inc_x,
                                      A, view.lda), A) :
              Return([op |-> "herm_rank1_update", alpha |-> alpha], X, Y, aa, C,
                     unit_return_ld(view.major, view.n, view.n, view.lda), NoOut)

Call_herm_rank2_update ==
    /\ view.dom = "complex"
    /\ \E alpha \in ComplexScalars :
        \E aa \in VendorOutcomes(LdOk,
                    herm_rank2_update(view.major, view.uplo, view.n, alpha, X, view.inc_x,
                                      Y, view.inc_y, A, view.lda), A) :
              Return([op |-> "herm_rank2_update", alpha |-> alpha], X, Y, aa, C,
                     unit_return_ld(view.major, view.n, view.n, view.lda), NoOut)

Call_sym_mat_vec_mul ==
    /\ view.dom = "real"
    /\ \E ab \in GemvRealPairs :
        \E yy \in VendorOutcomes(LdOk,
                    sym_mat_vec_mul(view.major, view.uplo, view.n, ab[1], A, view.lda,
                                    X, view.inc_x, ab[2], Y, view.inc_y), Y) :
              Return([op |-> "sym_mat_vec_mul", alpha |-> ab[1], beta |-> ab[2]], X, yy, A, C,
                     unit_return_ld(view.major, view.n, view.n, view.lda), NoOut)

Call_herm_mat_vec_mul_add ==
    /\ view.dom = "complex"
    /\ \E ab \in ComplexPairs :
        \E yy \in VendorOutcomes(LdOk,
                    herm_mat_vec_mul_add(view.major, view.uplo, view.n, ab[1], A, view.lda,
                                         X, view.inc_x, ab[2], Y, view.inc_y), Y) :
              Return([op |-> "herm_mat_vec_mul_add", alpha |-> ab[1], beta |-> ab[2]],
                     X, yy, A, C,
                     unit_return_ld(view.major, view.n, view.n, view.lda), NoOut)

NextSym ==
    \/ Call_sym_mat_vec_mul
    \/ Call_herm_mat_vec_mul_add
    \/ Call_sym_rank_1_update
    \/ Call_sym_rank_2_update
    \/ Call_herm_rank1_update
    \/ Call_herm_rank2_update

SpecSym == InitSym /\ [][NextSym]_vars

-----------------------------------------------------------------------------
(* Triangular: the caller prepares A and a right-hand side b in x, solves, *)
(* and may multiply what the solve left                                    *)

\* Element (i, j) of op(T) for the matrix M the caller laid out.
TriEntry(M, uplo, trans, diag, i, j) ==
    LET r == IF trans \in {Trans, ConjTrans} THEN j ELSE i
        c == IF trans \in {Trans, ConjTrans} THEN i ELSE j
    IN  IF r = c THEN (IF diag = Unit THEN R(1) ELSE M[<<r, r>>])
        ELSE IF InTriangle(uplo, r, c) THEN M[<<r, c>>]
        ELSE R(0)

\* The caller's matrix: 2 or -1 on the diagonal, and elements other than
\* zero on both sides of it.
TriM(p, q, n) ==
    [c \in Cells(n, n) |->
        IF c[1] = c[2] THEN R(IF (c[1] + p) % 2 = 0 THEN 2 ELSE 0 - 1)
        ELSE R(2 * p + 3 * c[1] - c[2] + q)]

\* b = op(T) * z: a right-hand side whose solution z has integer elements.
Rhs(M, uplo, trans, diag, n, z) ==
    [i \in 1..n |->
        SumUpTo([j \in 1..n |-> CMul(TriEntry(M, uplo, trans, diag, i - 1, j - 1), z[j])], n)]

ViewTri(major, uplo, trans, diag, n, lda, ix, M, z) ==
    [dom |-> "real", major |-> major, uplo |-> uplo, trans |-> trans, diag |-> diag,
     n |-> n, lda |-> lda, inc_x |-> ix, Am |-> M, z |-> z]

StartTri(v) ==
    /\ pc = "ready"
    /\ view = v
    /\ call = NoCall
    /\ X = Layout(Rhs(v.Am, v.uplo, v.trans, v.diag, v.n, v.z), v.n, v.inc_x)
    /\ A = MatLayout(v.Am, v.major, v.n, v.n, v.lda)
    /\ Y = NoBuf /\ B = NoBuf /\ C = NoBuf
    /\ pre = [X |-> NoBuf, Y |-> NoBuf, A |-> NoBuf, B |-> NoBuf, C |-> NoBuf]
    /\ ret = NoOut
    /\ out = NoOut

\* M with zeros stored on its diagonal.
ZeroDiagonal(M) == [c \in DOMAIN M |-> IF c[1] = c[2] THEN R(0) ELSE M[c]]

\* A unit triangular matrix is also given with zeros where its diagonal is
\* stored.
InitTri ==
    \E major \in CblasOrder, uplo \in CblasUpLow, trans \in CblasTranspose,
       diag \in CblasDiag :
      \E n \in 1..MaxDim, sl \in 0..1, ix \in 1..2, p \in Vals, q \in Vals :
        \E zd \in {FALSE, diag = Unit} :
          StartTri(ViewTri(major, uplo, trans, diag, n, n + sl, ix,
                           IF zd THEN ZeroDiagonal(TriM(p, q, n)) ELSE TriM(p, q, n),
                           RealV(n, q)))

\* The transpose mode is one the doc comments give a meaning to.
TransOk == view.trans \in GemvTrans

Call_tri_solve ==
    \E xx \in VendorOutcomes(TransOk,
                tri_solve(view.major, view.uplo, view.trans, view.diag, view.n,
                          A, view.lda, X, view.inc_x), X) :
        Return([op |-> "tri_solve"], xx, Y, A, C,
               unit_return_ld(view.major, view.n, view.n, view.lda), NoOut)

Call_tri_mat_vec_mul ==
    \E xx \in VendorOutcomes(TransOk,
                tri_mat_vec_mul(view.major, view.uplo, view.trans, view.diag, view.n,
                                A, view.lda, X, view.inc_x), X) :
        Return([op |-> "tri_mat_vec_mul"], xx, Y, A, C,
               unit_return_ld(view.major, view.n, view.n, view.lda), NoOut)

\* tri_mat_vec_mul called with the arguments of the tri_solve that has
\* returned, on the x it left.  pre keeps the buffers the solve was given.
Then_tri_mat_vec_mul ==
    /\ pc = "done"
    /\ call.op = "tri_solve"
    /\ \E xx \in VendorOutcomes(TransOk,
                   tri_mat_vec_mul(view.major, view.uplo, view.trans, view.diag, view.n,
                                   A, view.lda, X, view.inc_x), X) :
          /\ X' = xx
          /\ call' = [op |-> "tri_mat_vec_mul", after |-> "tri_solve", solved |-> X]
          /\ ret' = unit_return_ld(view.major, view.n, view.n, view.lda)
          /\ UNCHANGED <<pc, view, Y, A, B, C, pre, out>>

NextTri ==
    \/ Call_tri_solve
    \/ Call_tri_mat_vec_mul
    \/ Then_tri_mat_vec_mul

SpecTri == InitTri /\ [][NextTri]_vars

-----------------------------------------------------------------------------
(* Level 2, one output element at a time: the elements of the output of *)
(* mat_vec_mul, tri_mat_vec_mul and tri_solve computed in any order     *)

\* Element i of the y of mat_vec_mul: from A, x and the y element itself.
mat_vec_mul_row(i, trans, alpha, beta, y) ==
    Wr(y, VOff(i, view.inc_y),
       CAdd(CMul(alpha, gemv_row(0, view.xlen, R(0), view.major, trans, A, view.lda, i,
                                 X, view.inc_x)),
            CMul(beta, Rd(y, VOff(i, view.inc_y)))))

\* Element i of the x of tri_mat_vec_mul: from A and the x passed in, given.
tri_mat_vec_mul_row(i, given, x) ==
    Wr(x, VOff(i, view.inc_x),
       CAdd(CMul(TriAt(A, view.major, view.uplo, view.trans, view.diag, view.lda, i, i),
                 Rd(given, VOff(i, view.inc_x))),
            tri_row(0, view.n, R(0), A, view.major, view.uplo, view.trans, view.diag,
                    view.lda, i, given, view.inc_x)))

\* Element i of tri_solve as it would be if it were computed from the
\* right-hand side passed in and not from the elements solved before it.
tri_solve_row_from_given(i, given, x) ==
    LET rest == CAdd(Rd(given, VOff(i, view.inc_x)),
                     CMul(R(0 - 1),
                          tri_row(0, view.n, R(0), A, view.major, view.uplo, view.trans,
                                  view.diag, view.lda, i, given, view.inc_x)))
    IN  Wr(x, VOff(i, view.inc_x),
           IF view.diag = Unit THEN rest
           ELSE Div(rest, MatAt(A, view.major, view.lda, i, i)))

\* Element i of the x of tri_solve: from A, the right-hand side element
\* and the other elements of x as they are now, solved or not.
tri_solve_row(i, given, x) ==
    LET rest == CAdd(Rd(x, VOff(i, view.inc_x)),
                     CMul(R(0 - 1),
                          tri_row(0, view.n, R(0), A, view.major, view.uplo, view.trans,
                                  view.diag, view.lda, i, x, view.inc_x)))
    IN  Wr(x, VOff(i, view.inc_x),
           IF view.diag = Unit THEN rest
           ELSE Div(rest, MatAt(A, view.major, view.lda, i, i)))

\* A call begins: its scalar arguments are fixed and no element is computed.
Begin(c) ==
    /\ pc = "ready"
    /\ pc' = "rows"
    /\ call' = c
    /\ pre' = [X |-> X, Y |-> Y, A |-> A, B |-> B, C |-> C]
    /\ UNCHANGED <<view, X, Y, A, B, C, ret, out>>

Begin_mat_vec_mul ==
    /\ "xlen" \in DOMAIN view
    /\ view.dom = "real"
    /\ LdOk
    /\ \E trans \in GemvTrans, ab \in GemvRealPairs :
        /\ LenX(trans, view.m, view.n) = view.xlen
        /\ LenY(trans, view.m, view.n) = view.ylen
        /\ Begin([op |-> "mat_vec_mul", trans |-> trans, alpha |-> ab[1], beta |-> ab[2],
                  order |-> <<>>, rows |-> view.ylen])

Begin_tri ==
    /\ "uplo" \in DOMAIN view
    /\ TransOk
    /\ \E op \in {"tri_solve", "tri_mat_vec_mul"} :
          Begin([op |-> op, order |-> <<>>, rows |-> view.n])

\* The rows computed so far.
RowsDone == {call.order[k] : k \in DOMAIN call.order}

\* One more element of the output is computed; the call returns after the
\* last.
Row ==
    /\ pc = "rows"
    /\ \E i \in (0..(call.rows - 1)) \ RowsDone :
        /\ call' = [call EXCEPT !.order = Append(@, i)]
        /\ pc' = IF Len(call.order) + 1 = call.rows THEN "done" ELSE "rows"
        /\ ret' = IF Len(call.order) + 1 = call.rows THEN UnitRet ELSE ret
        /\ Y' = IF call.op = "mat_vec_mul"
                THEN mat_vec_mul_row(i, call.trans, call.alpha, call.beta, Y) ELSE Y
        /\ X' = IF call.op = "tri_solve" THEN tri_solve_row(i, pre.X, X)
                ELSE IF call.op = "tri_mat_vec_mul" THEN tri_mat_vec_mul_row(i, pre.X, X)
                ELSE X
        /\ UNCHANGED <<view, A, B, C, pre, out>>

NextRows ==
    \/ Begin_mat_vec_mul
    \/ Begin_tri
    \/ Row

SpecRows == (InitL2 \/ InitTri) /\ [][NextRows]_vars

-----------------------------------------------------------------------------
(* Triangular solve with several right-hand sides of Level 3 *)

\* The matrix buffer b with each element of the m x n matrix multiplied by
\* alpha; the slots beyond a line of the matrix are not touched.
ScaledMat(b, major, m, n, ldb, alpha) ==
    [o \in DOMAIN b |->
        IF (o - 1) \div ldb < Lines(major, m, n) /\ (o - 1) % ldb < LineLen(major, m, n)
        THEN CMul(alpha, b[o]) ELSE b[o]]

\* The terms of an equation other than the one solved for: for the side
\* Left, the sum over l # i of op(T)(i, l) * B(l, j); for the side Right,
\* the sum over l # j of B(i, l) * op(T)(l, j).
RECURSIVE trsm_rest(_, _, _, _, _, _, _, _, _, _, _, _, _, _)
trsm_rest(l, k, acc, major, side, uplo, trans, diag, a, lda, b, ldb, i, j) ==
    IF l >= k THEN acc
    ELSE trsm_rest(l + 1, k,
                   IF side = Left
                   THEN (IF l = i THEN acc
                         ELSE CAdd(acc, CMul(TriAt(a, major, uplo, trans, diag, lda, i, l),
                                             MatAt(b, major, ldb, l, j))))
                   ELSE (IF l = j THEN acc
                         ELSE CAdd(acc, CMul(MatAt(b, major, ldb, i, l),
                                             TriAt(a, major, uplo, trans, diag, lda, l, j)))),
                   major, side, uplo, trans, diag, a, lda, b, ldb, i, j)

\* cblas_strsm after the scaling by alpha: B is overwritten, element by
\* element, with the X of op(T) * X = B (Left) or X * op(T) = B (Right).
\* A column (Left) or a row (Right) of B is one system; within it the
\* elements are solved in the order in which each meets only elements
\* already solved and zeros of op(T): `down` says that this order is the
\* ascending one for the side Left, the descending one for the side Right.
RECURSIVE trsm(_, _, _, _, _, _, _, _, _, _, _, _, _)
trsm(s, major, side, down, uplo, trans, diag, m, n, a, lda, b, ldb) ==
    IF s >= m * n THEN b
    ELSE LET k == IF side = Left THEN m ELSE n
             t == s % k
             i == IF side = Left THEN (IF down THEN t ELSE m - 1 - t) ELSE s \div n
             j == IF side = Left THEN s \div m ELSE (IF down THEN n - 1 - t ELSE t)
             d == IF side = Left THEN i ELSE j
             rest == CAdd(MatAt(b, major, ldb, i, j),
                          CMul(R(0 - 1),
                               trsm_rest(0, k, R(0), major, side, uplo, trans, diag,
                                         a, lda, b, ldb, i, j)))
         IN  trsm(s + 1, major, side, down, uplo, trans, diag, m, n, a, lda,
                  Wr(b, Addr(major, i, j, ldb),
                     IF diag = Unit THEN rest ELSE Div(rest, MatAt(a, major, lda, d, d))),
                  ldb)

\* tri_solve_multiple as it would be if it swept each system in the
\* opposite direction.
tri_solve_multiple_sweeps_backwards(major, side, uplo, trans, diag, m, n, alpha, a, lda, b, ldb) ==
    trsm(0, major, side, ~LowerOp(uplo, trans), uplo, trans, diag, m, n, a, lda,
         ScaledMat(b, major, m, n, ldb, alpha), ldb)

\* matrix_f32.rs tri_solve_multiple -> cblas_strsm
tri_solve_multiple(major, side, uplo, trans, diag, m, n, alpha, a, lda, b, ldb) ==
    trsm(0, major, side, LowerOp(uplo, trans), uplo, trans, diag, m, n, a, lda,
         ScaledMat(b, major, m, n, ldb, alpha), ldb)

-----------------------------------------------------------------------------
(* Triangular solve with several right-hand sides: the caller prepares the *)
(* triangular A and, in B, right-hand sides whose solutions are integers   *)

\* The order of A for an m x n matrix B.
OrderOfA(side, m, n) == IF side = Left THEN m ELSE n

\* op(T) * Z for the side Left, Z * op(T) for the side Right.
RhsMat(M, side, uplo, trans, diag, m, n, Z) ==
    [c \in Cells(m, n) |->
        SumUpTo([l \in 1..OrderOfA(side, m, n) |->
                    IF side = Left
                    THEN CMul(TriEntry(M, uplo, trans, diag, c[1], l - 1), Z[<<l - 1, c[2]>>])
                    ELSE CMul(Z[<<c[1], l - 1>>], TriEntry(M, uplo, trans, diag, l - 1, c[2]))],
                OrderOfA(side, m, n))]

InitTrsm ==
    \E major \in CblasOrder, side \in CblasSide, uplo \in CblasUpLow,
       trans \in GemvTrans, diag \in CblasDiag :
      \E m \in 1..MaxDim, n \in 1..MaxDim, sl \in 0..1, p \in Vals, q \in Vals :
          /\ pc = "ready"
          /\ view = [dom |-> "real", major |-> major, side |-> side, uplo |-> uplo,
                     trans |-> trans, diag |-> diag, m |-> m, n |-> n,
                     lda |-> OrderOfA(side, m, n) + sl,
                     ldb |-> MinLd(major, m, n) + 1 - sl,
                     Am |-> TriM(p, q, OrderOfA(side, m, n)),
                     Z |-> RealA(q, p + 2, m, n)]
          /\ call = NoCall
          /\ A = MatLayout(view.Am, major, OrderOfA(side, m, n), OrderOfA(side, m, n),
                           view.lda)
          /\ B = MatLayout(RhsMat(view.Am, side, uplo, trans, diag, m, n, view.Z),
                           major, m, n, view.ldb)
          /\ X = NoBuf /\ Y = NoBuf /\ C = NoBuf
          /\ pre = [X |-> NoBuf, Y |-> NoBuf, A |-> NoBuf, B |-> NoBuf, C |-> NoBuf]
          /\ ret = NoOut
          /\ out = NoOut

Call_tri_solve_multiple ==
    /\ pc = "ready"
    /\ \E alpha \in RealScalars :
          /\ B' = tri_solve_multiple(view.major, view.side, view.uplo, view.trans,
                                     view.diag, view.m, view.n, alpha, A, view.lda,
                                     B, view.ldb)
          /\ call' = [op |-> "tri_solve_multiple", alpha |-> alpha]
    /\ pc' = "done"
    /\ pre' = [X |-> X, Y |-> Y, A |-> A, B |-> B, C |-> C]
    /\ ret' = UnitRet
    /\ UNCHANGED <<view, X, Y, A, C, out>>

SpecTrsm == InitTrsm /\ [][Call_tri_solve_multiple]_vars

-----------------------------------------------------------------------------
(* Band matrix-vector multiply of Level 2 *)

\* InBand as it would be if kl counted the super-diagonals and ku the
\* sub-diagonals.
InBand_exchanged(kl, ku, i, j) == i - j <= ku /\ j - i <= kl

\* (i, j) is on one of the kl sub-diagonals, the main diagonal or one of the
\* ku super-diagonals.
InBand(kl, ku, i, j) == i - j <= kl /\ j - i <= ku

\* The offset of the element (i, j) in the band storage array: a column of
\* a column-major array holds the band elements of a column of A, the
\* topmost super-diagonal first; a row of a row-major array holds those of
\* a row of A, the leftmost sub-diagonal first.
BandAddr(major, kl, ku, lda, i, j) ==
    IF major = ColMajor THEN j * lda + ku + i - j ELSE i * lda + kl + j - i

\* Element (i, j) of op(A), A being zero outside its band.
BandAt(a, major, trans, kl, ku, lda, i, j) ==
    LET r == IF trans = NoTrans THEN i ELSE j
        c == IF trans = NoTrans THEN j ELSE i
        e == Rd(a, BandAddr(major, kl, ku, lda, r, c))
    IN  IF ~InBand(kl, ku, r, c) THEN R(0)
        ELSE IF trans = ConjTrans THEN Conj(e) ELSE e

\* Row i of op(A) times x.
RECURSIVE band_row(_, _, _, _, _, _, _, _, _, _, _, _)
band_row(j, lenx, acc, major, trans, kl, ku, a, lda, i, x, inc_x) ==
    IF j >= lenx THEN acc
    ELSE band_row(j + 1, lenx,
                  CAdd(acc, CMul(BandAt(a, major, trans, kl, ku, lda, i, j),
                                 Rd(x, VOff(j, inc_x)))),
                  major, trans, kl, ku, a, lda, i, x, inc_x)

\* cblas_sgbmv / cblas_cgbmv: y = alpha * op(A) * x + beta * y.
RECURSIVE gbmv(_, _, _, _, _, _, _, _, _, _, _, _, _, _, _)
gbmv(i, leny, lenx, major, trans, kl, ku, alpha, a, lda, x, inc_x, beta, y, inc_y) ==
    IF i >= leny THEN y
    ELSE gbmv(i + 1, leny, lenx, major, trans, kl, ku, alpha, a, lda, x, inc_x, beta,
              Wr(y, VOff(i, inc_y),
                 CAdd(CMul(alpha, band_row(0, lenx, R(0), major, trans, kl, ku, a, lda,
                                          i, x, inc_x)),
                      CMul(beta, Rd(y, VOff(i, inc_y))))),
              inc_y)

\* matrix_f32.rs band_mat_mul_vec -> cblas_sgbmv
band_mat_mul_vec(major, trans, m, n, kl, ku, alpha, a, lda, x, inc_x, beta, y, inc_y) ==
    gbmv(0, LenY(trans, m, n), LenX(trans, m, n), major, trans, kl, ku,
         alpha, a, lda, x, inc_x, beta, y, inc_y)

\* matrix_c32.rs band_mat_vec_mul -> cblas_cgbmv
band_mat_vec_mul(major, trans, m, n, kl, ku, alpha, a, lda, x, inc_x, beta, y, inc_y) ==
    gbmv(0, LenY(trans, m, n), LenX(trans, m, n), major, trans, kl, ku,
         alpha, a, lda, x, inc_x, beta, y, inc_y)

-----------------------------------------------------------------------------
(* Band: the caller stores the band of an m x n matrix in a compact array *)

\* The band storage array of the matrix M: the band elements where the
\* routine looks for them, padding in every other slot.
BandLayout(M, major, m, n, kl, ku, lda) ==
    [o \in 1..(Lines(major, m, n) * lda + 1) |->
        LET line == (o - 1) \div lda
            pos == (o - 1) % lda
            i == IF major = ColMajor THEN pos - ku + line ELSE line
            j == IF major = ColMajor THEN line ELSE pos - kl + line
        IN  IF /\ line < Lines(major, m, n) /\ pos <= kl + ku
               /\ i \in 0..(m - 1) /\ j \in 0..(n - 1)
            THEN M[<<i, j>>] ELSE Pad]

InitBand ==
    \E major \in CblasOrder, m \in 1..MaxDim, n \in 1..MaxDim, sp \in StridePairs :
       \E kl \in 0..(m - 1), ku \in 0..(n - 1), sl \in 0..1, sh \in {<<n, m>>, <<m, n>>} :
          \E p \in Vals, q \in Vals, dom \in {"real", "complex"} :
             /\ pc = "ready"
             /\ view = [dom |-> dom, major |-> major, m |-> m, n |-> n, kl |-> kl,
                        ku |-> ku, lda |-> kl + ku + 1 + sl, xlen |-> sh[1],
                        ylen |-> sh[2], inc_x |-> sp[1], inc_y |-> sp[2],
                        Am |-> IF dom = "real" THEN RealA(p, q, m, n)
                               ELSE ComplexA(p, q, m, n)]
             /\ call = NoCall
             /\ X = Layout(IF dom = "real" THEN RealV(sh[1], q) ELSE ComplexV(sh[1], q, p),
                           sh[1], sp[1])
             /\ Y = Layout(IF dom = "real" THEN RealV(sh[2], p) ELSE ComplexV(sh[2], p, q),
                           sh[2], sp[2])
             /\ A = BandLayout(view.Am, major, m, n, kl, ku, view.lda)
             /\ B = NoBuf /\ C = NoBuf
             /\ pre = [X |-> NoBuf, Y |-> NoBuf, A |-> NoBuf, B |-> NoBuf, C |-> NoBuf]
             /\ ret = NoOut
             /\ out = NoOut

Call_band_mat_mul_vec ==
    /\ view.dom = "real"
    /\ \E trans \in GemvTrans, ab \in GemvRealPairs :
        /\ LenX(trans, view.m, view.n) = view.xlen
        /\ LenY(trans, view.m, view.n) = view.ylen
        /\ Finish([op |-> "band_mat_mul_vec", trans |-> trans,
                   alpha |-> ab[1], beta |-> ab[2]],
                  X,
                  band_mat_mul_vec(view.major, trans, view.m, view.n, view.kl, view.ku,
                                   ab[1], A, view.lda, X, view.inc_x, ab[2], Y, view.inc_y),
                  UnitRet, NoOut)

Call_band_mat_vec_mul ==
    /\ view.dom = "complex"
    /\ \E trans \in GemvTrans, ab \in ComplexPairs :
        /\ LenX(trans, view.m, view.n) = view.xlen
        /\ LenY(trans, view.m, view.n) = view.ylen
        /\ Finish([op |-> "band_mat_vec_mul", trans |-> trans,
                   alpha |-> ab[1], beta |-> ab[2]],
                  X,
                  band_mat_vec_mul(view.major, trans, view.m, view.n, view.kl, view.ku,
                                   ab[1], A, view.lda, X, view.inc_x, ab[2], Y, view.inc_y),
                  UnitRet, NoOut)

NextBand ==
    \/ Call_band_mat_mul_vec
    \/ Call_band_mat_vec_mul

SpecBand == InitBand /\ [][NextBand]_vars

-----------------------------------------------------------------------------
(* Level 3 routines *)

\* Element (i, j) of op(A) * op(B): the sum over l of op(A)(i,l) * op(B)(l,j).
RECURSIVE gemm_cell(_, _, _, _, _, _, _, _, _, _, _, _)
gemm_cell(l, k, acc, major, trans_a, trans_b, a, lda, b, ldb, i, j) ==
    IF l >= k THEN acc
    ELSE gemm_cell(l + 1, k,
                   CAdd(acc, CMul(OpAt(a, major, trans_a, lda, i, l),
                                  OpAt(b, major, trans_b, ldb, l, j))),
                   major, trans_a, trans_b, a, lda, b, ldb, i, j)

\* cblas_sgemm / cblas_cgemm: C = alpha * op(A) * op(B) + beta * C, one
\* element of C after the other.
RECURSIVE gemm(_, _, _, _, _, _, _, _, _, _, _, _, _, _, _)
gemm(e, major, trans_a, trans_b, m, n, k, alpha, a, lda, b, ldb, beta, c, ldc) ==
    IF e >= m * n THEN c
    ELSE LET i == e \div n
             j == e % n
         IN  gemm(e + 1, major, trans_a, trans_b, m, n, k, alpha, a, lda, b, ldb, beta,
                  Wr(c, Addr(major, i, j, ldc),
                     CAdd(CMul(alpha, gemm_cell(0, k, R(0), major, trans_a, trans_b,
                                                a, lda, b, ldb, i, j)),
                          CMul(beta, MatAt(c, major, ldc, i, j)))),
                  ldc)

\* mat_mul as it would be if B were the left factor wherever the shapes
\* allow both products.
mat_mul_b_left(major, trans_a, trans_b, m, n, k, alpha, a, lda, b, ldb, beta, c, ldc) ==
    IF m = n /\ n = k
    THEN gemm(0, major, trans_b, trans_a, m, n, k, alpha, b, ldb, a, lda, beta, c, ldc)
    ELSE gemm(0, major, trans_a, trans_b, m, n, k, alpha, a, lda, b, ldb, beta, c, ldc)

\* mat_mul as it would be if it returned at once on an empty inner extent.
mat_mul_skips_empty_k(major, trans_a, trans_b, m, n, k, alpha, a, lda, b, ldb, beta, c, ldc) ==
    IF k <= 0 THEN c
    ELSE gemm(0, major, trans_a, trans_b, m, n, k, alpha, a, lda, b, ldb, beta, c, ldc)

\* matrix_f32.rs mat_mul -> cblas_sgemm
mat_mul(major, trans_a, trans_b, m, n, k, alpha, a, lda, b, ldb, beta, c, ldc) ==
    gemm(0, major, trans_a, trans_b, m, n, k, alpha, a, lda, b, ldb, beta, c, ldc)

\* matrix_c32.rs mat_mul_add -> cblas_cgemm
mat_mul_add(major, trans_a, trans_b, m, n, k, alpha, a, lda, b, ldb, beta, c, ldc) ==
    gemm(0, major, trans_a, trans_b, m, n, k, alpha, a, lda, b, ldb, beta, c, ldc)

-----------------------------------------------------------------------------
(* Level 3: the caller prepares A, B and C, then calls *)

\* The stored extents of an operand whose op() is rows x cols.
StoredRows(trans, rows, cols) == IF trans = NoTrans THEN rows ELSE cols
StoredCols(trans, rows, cols) == IF trans = NoTrans THEN cols ELSE rows

RealB(p, q, m, n) == [c \in Cells(m, n) |-> R(q - c[1] + p * c[2])]
ComplexB(p, q, m, n) == [c \in Cells(m, n) |-> Cx(q - c[1] + p * c[2], p + c[1] - q * c[2])]

Slack == {0, 1}
RealTransPairs == {NoTrans, Trans} \X {NoTrans, Trans}
ComplexTransPairs == GemvTrans \X GemvTrans
GemmRealPairs == {<<R(2), R(0)>>, <<R(1), R(1)>>, <<R(0 - 1), R(2)>>}

ViewL3(dom, major, ta, tb, m, n, k, sl, MA, MB, MC) ==
    [dom |-> dom, major |-> major, trans_a |-> ta, trans_b |-> tb,
     m |-> m, n |-> n, k |-> k,
     lda |-> MinLd(major, StoredRows(ta, m, k), StoredCols(ta, m, k)) + sl,
     ldb |-> MinLd(major, StoredRows(tb, k, n), StoredCols(tb, k, n)) + sl,
     ldc |-> MinLd(major, m, n) + sl,
     Am |-> MA, Bm |-> MB, Cm |-> MC]

StartL3(v) ==
    /\ pc = "ready"
    /\ view = v
    /\ call = NoCall
    /\ X = NoBuf /\ Y = NoBuf
    /\ A = MatLayout(v.Am, v.major, StoredRows(v.trans_a, v.m, v.k),
                     StoredCols(v.trans_a, v.m, v.k),
                     StoredLd(v.major, StoredRows(v.trans_a, v.m, v.k),
                              StoredCols(v.trans_a, v.m, v.k), v.lda))
    /\ B = MatLayout(v.Bm, v.major, StoredRows(v.trans_b, v.k, v.n),
                     StoredCols(v.trans_b, v.k, v.n),
                     StoredLd(v.major, StoredRows(v.trans_b, v.k, v.n),
                              StoredCols(v.trans_b, v.k, v.n), v.ldb))
    /\ C = MatLayout(v.Cm, v.major, v.m, v.n, StoredLd(v.major, v.m, v.n, v.ldc))
    /\ pre = [X |-> NoBuf, Y |-> NoBuf, A |-> NoBuf, B |-> NoBuf, C |-> NoBuf]
    /\ ret = NoOut
    /\ out = NoOut

InitL3 ==
    \E major \in CblasOrder, m \in 1..MaxDim, n \in 1..MaxDim, k \in 1..MaxDim :
      \E sl \in Slack, p \in Vals, q \in Vals :
        \/ \E t \in RealTransPairs :
              StartL3(ViewL3("real", major, t[1], t[2], m, n, k, sl,
                             RealA(p, q, StoredRows(t[1], m, k), StoredCols(t[1], m, k)),
                             RealB(p, q, StoredRows(t[2], k, n), StoredCols(t[2], k, n)),
                             RealA(q, p, m, n)))
        \/ \E t \in ComplexTransPairs :
              StartL3(ViewL3("complex", major, t[1], t[2], m, n, k, sl,
                             ComplexA(p, q, StoredRows(t[1], m, k), StoredCols(t[1], m, k)),
                             ComplexB(p, q, StoredRows(t[2], k, n), StoredCols(t[2], k, n)),
                             ComplexA(q, p, m, n)))

\* The leading dimensions are what the doc comments ask for: at least the
\* number of rows of the stored matrix in column-major and of its columns
\* in row-major order.
LdaOk == view.lda >= MinLd(view.major, StoredRows(view.trans_a, view.m, view.k),
                           StoredCols(view.trans_a, view.m, view.k))
LdbOk == view.ldb >= MinLd(view.major, StoredRows(view.trans_b, view.k, view.n),
                           StoredCols(view.trans_b, view.k, view.n))
LdcOk == view.ldc >= MinLd(view.major, view.m, view.n)
DimsOk == LdaOk /\ LdbOk /\ LdcOk

Call_mat_mul ==
    /\ view.dom = "real"
    /\ \E ab \in GemmRealPairs :
        \E cc \in VendorOutcomes(DimsOk,
                    mat_mul(view.major, view.trans_a, view.trans_b, view.m, view.n, view.k,
                            ab[1], A, view.lda, B, view.ldb, ab[2], C, view.ldc), C) :
          Return([op |-> "mat_mul", alpha |-> ab[1], beta |-> ab[2]], X, Y, A, cc,
                 unit_return_ld(view.major, view.m, view.n, view.ldc), NoOut)

Call_mat_mul_add ==
    /\ view.dom = "complex"
    /\ \E ab \in ComplexPairs :
        \E cc \in VendorOutcomes(DimsOk,
                    mat_mul_add(view.major, view.trans_a, view.trans_b, view.m, view.n, view.k,
                                ab[1], A, view.lda, B, view.ldb, ab[2], C, view.ldc), C) :
          Return([op |-> "mat_mul_add", alpha |-> ab[1], beta |-> ab[2]], X, Y, A, cc,
                 unit_return_ld(view.major, view.m, view.n, view.ldc), NoOut)

NextL3 ==
    \/ Call_mat_mul
    \/ Call_mat_mul_add

SpecL3 == InitL3 /\ [][NextL3]_vars

-----------------------------------------------------------------------------
(* Level 3 with leading dimensions on either side of the minimum *)

\* What is added to the smallest lda and to the smallest ldc.
LdShifts == {<<0 - 1, 0>>, <<0, 0 - 1>>, <<1, 0>>, <<0, 0>>}

InitDim ==
    \E major \in CblasOrder, m \in 1..MaxDim, n \in 1..MaxDim, k \in 1..MaxDim :
      \E d \in LdShifts, p \in Vals :
        \/ \E t \in RealTransPairs :
              StartL3([ViewL3("real", major, t[1], t[2], m, n, k, 0,
                              RealA(p, 1, StoredRows(t[1], m, k), StoredCols(t[1], m, k)),
                              RealB(p, 1, StoredRows(t[2], k, n), StoredCols(t[2], k, n)),
                              RealA(1, p, m, n))
                          EXCEPT !.lda = @ + d[1], !.ldc = @ + d[2]])
        \/ \E t \in ComplexTransPairs :
              StartL3([ViewL3("complex", major, t[1], t[2], m, n, k, 0,
                              ComplexA(p, 1, StoredRows(t[1], m, k), StoredCols(t[1], m, k)),
                              ComplexB(p, 1, StoredRows(t[2], k, n), StoredCols(t[2], k, n)),
                              ComplexA(1, p, m, n))
                          EXCEPT !.lda = @ + d[1], !.ldc = @ + d[2]])

SpecDim == InitDim /\ [][NextL3]_vars

-----------------------------------------------------------------------------
(* Empty extents: calls of all three levels with an extent that is zero, *)
(* or negative for a vector, on buffers that hold something              *)

\* The level of the call the caller has prepared.
Level == IF "k" \in DOMAIN view THEN 3 ELSE IF "lda" \in DOMAIN view THEN 2 ELSE 1

InitExtent ==
    \/ \E n \in (0 - 1)..0, ix \in Strides, iy \in Strides :
         \E a \in [1..MaxN -> Vals], s \in Vals :
            \/ StartLen(ViewLen("real", n, MaxN, MaxN, ix, iy), RealX(a), RealY(MaxN, s))
            \/ StartLen(ViewLen("complex", n, MaxN, MaxN, ix, iy),
                        ComplexX(a, s), ComplexY(MaxN, s))
    \/ \E major \in CblasOrder, m \in 0..MaxDim, n \in 0..MaxDim, sp \in StridePairs :
         \E sh \in {<<n, m>>, <<m, n>>}, p \in Vals, q \in Vals :
            /\ m = 0 \/ n = 0
            /\ \/ StartL2(ViewL2("real", major, m, n, MinLd(major, m, n) + 1,
                                  sh[1], sh[2], sp[1], sp[2], RealA(p, q, m, n)),
                           RealV(sh[1], q), RealV(sh[2], p))
               \/ StartL2(ViewL2("complex", major, m, n, MinLd(major, m, n) + 1,
                                  sh[1], sh[2], sp[1], sp[2], ComplexA(p, q, m, n)),
                           ComplexV(sh[1], q, p), ComplexV(sh[2], p, q))
    \/ \E major \in CblasOrder, m \in 0..MaxDim, n \in 0..MaxDim, k \in 0..MaxDim :
         \E p \in Vals, q \in Vals :
            /\ m = 0 \/ n = 0 \/ k = 0
            /\ \/ \E t \in RealTransPairs :
                     StartL3(ViewL3("real", major, t[1], t[2], m, n, k, 1,
                                    RealA(p, q, StoredRows(t[1], m, k), StoredCols(t[1], m, k)),
                                    RealB(p, q, StoredRows(t[2], k, n), StoredCols(t[2], k, n)),
                                    RealA(q, p, m, n)))
               \/ \E t \in ComplexTransPairs :
                     StartL3(ViewL3("complex", major, t[1], t[2], m, n, k, 1,
                                    ComplexA(p, q, StoredRows(t[1], m, k), StoredCols(t[1], m, k)),
                                    ComplexB(p, q, StoredRows(t[2], k, n), StoredCols(t[2], k, n)),
                                    ComplexA(q, p, m, n)))

NextExtent ==
    \/ Level = 1 /\ NextL1
    \/ Level = 2 /\ NextL2
    \/ Level = 3 /\ NextL3

SpecExtent == InitExtent /\ [][NextExtent]_vars

-----------------------------------------------------------------------------
(* Level 3 properties *)

ProductTerms(i, j) ==
    [l \in 1..view.k |-> CMul(OpOf(view.Am, view.trans_a, i, l - 1),
                              OpOf(view.Bm, view.trans_b, l - 1, j))]

CAfter(i, j) == C[(IF view.major = RowMajor THEN i * view.ldc + j ELSE j * view.ldc + i) + 1]

Region(major, rows, cols, ld) ==
    0..((IF major = RowMajor THEN rows ELSE cols) * ld - 1)

\* Every element the call addresses lies in the declared region and no two
\* of them share an address.
InsideAndApart(major, rows, cols, ld) ==
    /\ \A c \in Cells(rows, cols) :
          Addr(major, c[1], c[2], ld) \in Region(major, rows, cols, ld)
    /\ \A c \in Cells(rows, cols), d \in Cells(rows, cols) :
          c # d => Addr(major, c[1], c[2], ld) # Addr(major, d[1], d[2], ld)

RowsOfA == IF view.trans_a = NoTrans THEN view.m ELSE view.k
ColsOfA == IF view.trans_a = NoTrans THEN view.k ELSE view.m
RowsOfB == IF view.trans_b = NoTrans THEN view.k ELSE view.n
ColsOfB == IF view.trans_b = NoTrans THEN view.n ELSE view.k

AllInsideAndApart ==
    /\ InsideAndApart(view.major, RowsOfA, ColsOfA, view.lda)
    /\ InsideAndApart(view.major, RowsOfB, ColsOfB, view.ldb)
    /\ InsideAndApart(view.major, view.m, view.n, view.ldc)

\* The contract of C11 as stated: lda >= k for a column-major A that is
\* not transposed, the number of rows (column-major) or columns (row-major)
\* of the stored matrix otherwise.
StatedContract ==
    /\ IF view.major = ColMajor /\ view.trans_a = NoTrans
       THEN view.lda >= view.k
       ELSE view.lda >= (IF view.major = RowMajor THEN ColsOfA ELSE RowsOfA)
    /\ view.ldb >= (IF view.major = RowMajor THEN ColsOfB ELSE RowsOfB)
    /\ view.ldc >= (IF view.major = RowMajor THEN view.n ELSE view.m)

\* The contract the doc comments state: each leading dimension is at
\* least the number of rows of the stored matrix in column-major order and
\* of its columns in row-major order; lda >= m for a column-major A that is
\* not transposed.
DocContract ==
    /\ view.lda >= (IF view.major = RowMajor THEN ColsOfA ELSE RowsOfA)
    /\ view.ldb >= (IF view.major = RowMajor THEN ColsOfB ELSE RowsOfB)
    /\ view.ldc >= (IF view.major = RowMajor THEN view.n ELSE view.m)

C11_WitnessAccepted ==
    /\ Called({"mat_mul"})
    /\ view.major = ColMajor /\ view.trans_a = NoTrans
    /\ view.m = 1 /\ view.k = 2 /\ view.lda = 1
    /\ DocContract /\ ~StatedContract
    /\ AllInsideAndApart
    /\ C # pre.C

-----------------------------------------------------------------------------
(* Properties of the storage order *)

OtherOrder(major) == IF major = RowMajor THEN ColMajor ELSE RowMajor

\* C30: the element (i, j) of a matrix is read at offset i * ld + j in
\* row-major order and at j * ld + i in column-major order.  Hence
\* mat_vec_mul on a buffer declared in one order with extents (m, n), with
\* NoTrans or Trans, leaves the y that it leaves on the same buffer declared
\* in the other order with extents (n, m) and Trans or NoTrans, and the y
\* that it leaves when the same matrix is stored in the other order.
C30_StorageOrder ==
    (Called({"mat_vec_mul"}) /\ LdOk /\ NonEmpty) =>
        /\ \A c \in Cells(view.m, view.n) :
              /\ MatAt(pre.A, view.major, view.lda, c[1], c[2]) = view.Am[c]
              /\ view.major = RowMajor => pre.A[c[1] * view.lda + c[2] + 1] = view.Am[c]
              /\ view.major = ColMajor => pre.A[c[2] * view.lda + c[1] + 1] = view.Am[c]
        /\ call.trans \in {NoTrans, Trans} =>
              Y = mat_vec_mul(OtherOrder(view.major),
                              IF call.trans = NoTrans THEN Trans ELSE NoTrans,
                              view.n, view.m, call.alpha, pre.A, view.lda,
                              pre.X, view.inc_x, call.beta, pre.Y, view.inc_y)
        /\ \A ld \in {MinLd(OtherOrder(view.major), view.m, view.n),
                       MinLd(OtherOrder(view.major), view.m, view.n) + 1} :
              Y = mat_vec_mul(OtherOrder(view.major), call.trans, view.m, view.n,
                              call.alpha,
                              MatLayout(view.Am, OtherOrder(view.major), view.m, view.n, ld),
                              ld, pre.X, view.inc_x, call.beta, pre.Y, view.inc_y)

\* C30: mat_vec_mul has returned for a row-major 1 x 2 matrix with two
\* different elements and a row longer than the matrix is wide, not
\* transposed, and has changed y.
C30_Witness ==
    /\ Called({"mat_vec_mul"})
    /\ view.major = RowMajor /\ call.trans = NoTrans
    /\ view.m = 1 /\ view.n = 2 /\ view.lda = 3
    /\ view.Am[<<0, 0>>] # view.Am[<<0, 1>>]
    /\ Y # pre.Y

\* C30: mat_vec_mul has returned for a column-major 2 x 2 matrix that is
\* not symmetric, transposed, and has changed y.
C30_WitnessSquare ==
    /\ Called({"mat_vec_mul"})
    /\ view.major = ColMajor /\ call.trans = Trans
    /\ view.m = 2 /\ view.n = 2 /\ LdOk
    /\ view.Am[<<0, 1>>] # view.Am[<<1, 0>>]
    /\ Logical(Y, 2, view.inc_y)[1] # Logical(pre.Y, 2, view.inc_y)[1]
    /\ Logical(Y, 2, view.inc_y)[2] # Logical(pre.Y, 2, view.inc_y)[2]

-----------------------------------------------------------------------------
(* Properties of the rank updates *)

SymOps == {"sym_rank_1_update", "sym_rank_2_update",
           "herm_rank1_update", "herm_rank2_update"}

\* The offsets in A of the elements of the triangle declared by the call.
DeclaredOffsets ==
    {Addr(view.major, c[1], c[2], view.lda) + 1 :
        c \in {d \in Cells(view.n, view.n) : InTriangle(view.uplo, d[1], d[2])}}

MirrorLower(a, i, j) ==
    IF i >= j THEN MatAt(a, view.major, view.lda, i, j)
    ELSE MatAt(a, view.major, view.lda, j, i)

\* C22: after sym_rank_1_update with the lower triangle on a symmetric A,
\* every element (i, j) with i >= j is old(A)(i, j) + alpha * x_i * x_j, so
\* that the lower triangle mirrored into the upper one is the dense matrix
\* A + alpha * x * x^T, the one the general rank-1 update with y = x leaves
\* when given the mirrored old A.
C22_LowerIsDense ==
    (Called({"sym_rank_1_update"}) /\ view.uplo = Lower /\ LdOk) =>
        /\ \A c \in Cells(view.n, view.n) :
              MirrorLower(A, c[1], c[2])
                  = CAdd(MirrorLower(pre.A, c[1], c[2]),
                         CMul(call.alpha,
                              CMul(Rd(pre.X, VOff(c[1], view.inc_x)),
                                   Rd(pre.X, VOff(c[2], view.inc_x)))))
        /\ MatLayout([c \in Cells(view.n, view.n) |-> MirrorLower(A, c[1], c[2])],
                     view.major, view.n, view.n, view.lda)
             = mat_rank1_update(view.major, view.n, view.n, call.alpha,
                                pre.X, view.inc_x, pre.X, view.inc_x,
                                MatLayout([c \in Cells(view.n, view.n) |->
                                              MirrorLower(pre.A, c[1], c[2])],
                                          view.major, view.n, view.n, view.lda),
                                view.lda)

\* C22: the lower triangle of a 2 x 2 matrix has been updated with a
\* non-zero alpha: the element (1, 0) and both diagonal elements changed.
C22_Witness ==
    /\ Called({"sym_rank_1_update"})
    /\ view.uplo = Lower /\ LdOk
    /\ view.n = 2
    /\ call.alpha = R(2)
    /\ MatAt(A, view.major, view.lda, 1, 0) # MatAt(pre.A, view.major, view.lda, 1, 0)
    /\ MatAt(A, view.major, view.lda, 0, 0) # MatAt(pre.A, view.major, view.lda, 0, 0)
    /\ MatAt(A, view.major, view.lda, 1, 1) # MatAt(pre.A, view.major, view.lda, 1, 1)
    /\ MatAt(A, view.major, view.lda, 0, 1) = MatAt(pre.A, view.major, view.lda, 0, 1)

\* The buffer a with g in every element strictly in the triangle that the
\* call does not declare and, for a Hermitian matrix, with the imaginary
\* part of g as the imaginary part of every diagonal element.
Disturbed(a, herm, g) ==
    [o \in DOMAIN a |->
        IF \E c \in Cells(view.n, view.n) :
              /\ ~InTriangle(view.uplo, c[1], c[2])
              /\ Addr(view.major, c[1], c[2], view.lda) + 1 = o
        THEN g
        ELSE IF herm /\ \E i \in 0..(view.n - 1) : Addr(view.major, i, i, view.lda) + 1 = o
        THEN Cx(a[o].re, g.im)
        ELSE a[o]]

\* The dense matrix with the declared triangle of a and its mirror image.
Mirrored(a, herm) ==
    MatLayout([c \in Cells(view.n, view.n) |->
                  LET e == MatAt(a, view.major, view.lda, c[1], c[2])
                      t == MatAt(a, view.major, view.lda, c[2], c[1])
                  IN  IF c[1] = c[2] THEN (IF herm THEN R(e.re) ELSE e)
                      ELSE IF InTriangle(view.uplo, c[1], c[2]) THEN e
                      ELSE IF herm THEN Conj(t) ELSE t],
              view.major, view.n, view.n, view.lda)

C23_WitnessHermitian ==
    /\ Called({"herm_mat_vec_mul_add"})
    /\ LdOk /\ view.n = 2 /\ view.uplo = Lower
    /\ MatAt(A, view.major, view.lda, 0, 0).im # 0
    /\ MatAt(A, view.major, view.lda, 0, 1) # Conj(MatAt(A, view.major, view.lda, 1, 0))
    /\ Rd(Y, 0) # Rd(pre.Y, 0)

-----------------------------------------------------------------------------
(* Properties of the triangular routines and of the enumerations *)

\* C20: tri_solve followed by tri_mat_vec_mul with the same matrix,
\* triangle, transpose mode and diagonal mode gives back the right-hand
\* side: for a triangular A with non-zero or unit diagonal and a b that the
\* arithmetic solves exactly, tri_solve leaves the z with op(A) * z = b and
\* tri_mat_vec_mul then leaves b, for both triangles and for A transposed
\* or not; A is not written.
C20_SolveThenMultiply ==
    /\ (Called({"tri_solve"}) /\ TransOk) =>
          (Logical(X, view.n, view.inc_x) = view.z /\ A = pre.A)
    /\ (Called({"tri_mat_vec_mul"}) /\ "after" \in DOMAIN call /\ TransOk) =>
          /\ call.solved = Layout(view.z, view.n, view.inc_x)
          /\ X = pre.X
          /\ X = Layout(Rhs(view.Am, view.uplo, view.trans, view.diag, view.n, view.z),
                        view.n, view.inc_x)
          /\ A = pre.A

\* C20: solve and multiply have been made on an upper triangular 2 x 2
\* matrix, transposed, whose diagonal divides, with a right-hand side that
\* the solve changed in both elements.
C20_Witness ==
    /\ Called({"tri_mat_vec_mul"})
    /\ "after" \in DOMAIN call
    /\ view.n = 2 /\ view.uplo = Upper /\ view.trans = Trans /\ view.diag = NonUnit
    /\ view.Am[<<0, 0>>] = R(2)
    /\ call.solved[1] # pre.X[1]
    /\ call.solved[1 + view.inc_x] # pre.X[1 + view.inc_x]
    /\ X = pre.X

TriOps == {"tri_solve", "tri_mat_vec_mul"}

\* The buffer a with v stored in the diagonal elements of the matrix.
SetDiagonal(a, v) ==
    [o \in DOMAIN a |->
        IF \E i \in 0..(view.n - 1) : Addr(view.major, i, i, view.lda) + 1 = o
        THEN v ELSE a[o]]

\* The x handed to the call that returned last.
GivenX == IF "after" \in DOMAIN call THEN call.solved ELSE pre.X

C24_WitnessMultiply ==
    /\ Called({"tri_mat_vec_mul"})
    /\ "after" \notin DOMAIN call
    /\ view.diag = Unit /\ view.n = 2
    /\ MatAt(pre.A, view.major, view.lda, 0, 0) = R(2)
    /\ MatAt(pre.A, view.major, view.lda, 1, 1) = R(0 - 1)
    /\ X # pre.X

-----------------------------------------------------------------------------
(* Properties of the band multiply *)

BandOps == {"band_mat_mul_vec", "band_mat_vec_mul"}

\* The elements (i, j) of column j that the compact storage holds.
Envelope(i, j) ==
    /\ (IF j - view.ku > 0 THEN j - view.ku ELSE 0) <= i
    /\ i <= (IF j + view.kl < view.m - 1 THEN j + view.kl ELSE view.m - 1)

\* The dense m x n matrix with the caller's elements inside the band and
\* zero outside it, stored with the smallest leading dimension.
DenseOfBand ==
    MatLayout([c \in Cells(view.m, view.n) |->
                  IF Envelope(c[1], c[2]) THEN view.Am[c] ELSE R(0)],
              view.major, view.m, view.n, MinLd(view.major, view.m, view.n))

\* The storage array a with g in the slots that hold no band element.
OutsideSet(a, g) ==
    [o \in DOMAIN a |->
        IF \E c \in Cells(view.m, view.n) :
              /\ Envelope(c[1], c[2])
              /\ BandAddr(view.major, view.kl, view.ku, view.lda, c[1], c[2]) + 1 = o
        THEN a[o] ELSE g]

\* C28: the band matrix-vector multiply reads the elements (i, j) with
\* max(0, j - ku) <= i <= min(m - 1, j + kl) from the compact storage with
\* lda >= kl + ku + 1.  The y it leaves is the y that the general
\* matrix-vector multiply leaves for the dense m x n matrix with those
\* elements inside the band and zero outside, and does not depend on the
\* storage slots outside the envelope.  A and x are not written.
C28_BandIsDense ==
    Called(BandOps) =>
        /\ view.lda >= view.kl + view.ku + 1
        /\ Y = mat_vec_mul(view.major, call.trans, view.m, view.n, call.alpha,
                           DenseOfBand, MinLd(view.major, view.m, view.n),
                           pre.X, view.inc_x, call.beta, pre.Y, view.inc_y)
        /\ \A g \in {R(0), Cx(3, 4)} :
              Y = band_mat_vec_mul(view.major, call.trans, view.m, view.n, view.kl,
                                   view.ku, call.alpha, OutsideSet(pre.A, g), view.lda,
                                   pre.X, view.inc_x, call.beta, pre.Y, view.inc_y)
        /\ A = pre.A /\ X = pre.X

\* C28: band_mat_mul_vec has returned for a 2 x 2 matrix with one
\* sub-diagonal and no super-diagonal, whose element (0, 1), outside the
\* band, is not zero in the caller's matrix, and has changed y.
C28_Witness ==
    /\ Called({"band_mat_mul_vec"})
    /\ view.m = 2 /\ view.n = 2 /\ view.kl = 1 /\ view.ku = 0
    /\ call.trans = NoTrans /\ call.alpha = R(2)
    /\ view.Am[<<0, 1>>] # R(0)
    /\ view.Am[<<1, 0>>] # R(0)
    /\ Rd(X, 0) # R(0)
    /\ Y # pre.Y

\* C28: band_mat_vec_mul has returned for a row-major 2 x 2 complex matrix
\* with one super-diagonal, conjugate-transposed, and has changed y.
C28_WitnessComplex ==
    /\ Called({"band_mat_vec_mul"})
    /\ view.major = RowMajor
    /\ view.m = 2 /\ view.n = 2 /\ view.kl = 0 /\ view.ku = 1
    /\ call.trans = ConjTrans
    /\ view.Am[<<0, 1>>].im # 0
    /\ Y # pre.Y

-----------------------------------------------------------------------------
(* Properties of the triangular solve with several right-hand sides *)

\* Column j of the m x n matrix in b times alpha, as a vector of stride 1.
ScaledColumn(b, alpha, j) ==
    Layout([i \in 1..view.m |-> CMul(alpha, MatAt(b, view.major, view.ldb, i - 1, j))],
           view.m, 1)

\* Row i of the m x n matrix in b times alpha, as a vector of stride 1.
ScaledRow(b, alpha, i) ==
    Layout([j \in 1..view.n |-> CMul(alpha, MatAt(b, view.major, view.ldb, i, j - 1))],
           view.n, 1)

\* A transposed where trans does not transpose, and the reverse.
Flipped(trans) == IF trans = NoTrans THEN Trans ELSE NoTrans

C25_WitnessRight ==
    /\ Called({"tri_solve_multiple"})
    /\ view.side = Right /\ view.uplo = Upper /\ view.trans = NoTrans
    /\ view.diag = NonUnit /\ view.m = 1 /\ view.n = 2
    /\ call.alpha = R(1)
    /\ MatAt(B, view.major, view.ldb, 0, 0) # MatAt(pre.B, view.major, view.ldb, 0, 0)
    /\ MatAt(B, view.major, view.ldb, 0, 1) # MatAt(pre.B, view.major, view.ldb, 0, 1)

-----------------------------------------------------------------------------
(* Properties of the order in which output elements are computed *)

\* The output the binding leaves when called on the buffers the call was
\* given.
KernelOutput ==
    IF call.op = "mat_vec_mul"
    THEN mat_vec_mul(view.major, call.trans, view.m, view.n, call.alpha, pre.A, view.lda,
                     pre.X, view.inc_x, call.beta, pre.Y, view.inc_y)
    ELSE IF call.op = "tri_solve"
    THEN tri_solve(view.major, view.uplo, view.trans, view.diag, view.n, pre.A, view.lda,
                   pre.X, view.inc_x)
    ELSE tri_mat_vec_mul(view.major, view.uplo, view.trans, view.diag, view.n, pre.A,
                         view.lda, pre.X, view.inc_x)

Output == IF call.op = "mat_vec_mul" THEN Y ELSE X

\* The order of substitution: ascending when op(A) is lower triangular,
\* descending when it is upper triangular.
SubstitutionOrder ==
    [k \in 1..view.n |->
        IF LowerOp(view.uplo, view.trans) THEN k - 1 ELSE view.n - k]

C26_WitnessAnyOrder ==
    /\ Called({"mat_vec_mul"})
    /\ call.order = <<1, 0>>
    /\ Rd(Y, 0) # Rd(pre.Y, 0)
    /\ Rd(Y, view.inc_y) # Rd(pre.Y, view.inc_y)
    /\ Output = KernelOutput

-----------------------------------------------------------------------------
(* Properties of calls with an empty extent *)

EmptyExtent ==
    IF Level = 1 THEN view.n <= 0
    ELSE IF Level = 2 THEN view.m <= 0 \/ view.n <= 0
    ELSE view.m <= 0 \/ view.n <= 0 \/ view.k <= 0

AllAsBefore == X = pre.X /\ Y = pre.Y /\ A = pre.A /\ B = pre.B /\ C = pre.C

C13_WitnessVector ==
    /\ Called({"scale_plus"})
    /\ view.n = 0 - 1 /\ view.inc_x = 2 /\ view.inc_y = 0
    /\ call.alpha = R(2)
    /\ pre.X[1] # R(0) /\ pre.Y[1] # R(0)
    /\ AllAsBefore

=============================================================================
